---- MODULE Spec2Model ----
(***************************************************************************)
(* The university data-warehouse ETL of src/Ai_analytics.py (the part      *)
(* after "=== etl main.py ==="): transform_dimensions,                     *)
(* create_transformed_tables, load_transformed_data,                       *)
(* generate_business_facts and main.                                       *)
(*                                                                         *)
(* Encoding of values                                                      *)
(*   - a DataFrame or a table's contents is a sequence of rows (records);  *)
(*   - a missing numeric cell (pandas NaN, Python None) is NaN;            *)
(*   - a cell holding text that float() cannot parse is BadText;           *)
(*   - admission_year is fixed point with one decimal digit (20265 is      *)
(*     2026.5), so that int(x) is a truncation and not the identity;       *)
(*   - grades, attendance and ratings are drawn in hundredths and stored   *)
(*     in tenths, as round(x, 1) leaves them;                              *)
(*   - a calendar date is [y, m, d]; an unparsable date is NaT;            *)
(*   - a continuous random draw (random.uniform, random.gauss) is a        *)
(*     choice among named representative values that include the extremes. *)
(***************************************************************************)
EXTENDS Integers, Sequences, FiniteSets, TLC

VARIABLES
    entry,             \* the function the run was started with
    pc,                \* position of the run
    ip,                \* index of the next statement / table inside a stage
    files,             \* the seven dimension CSV files
    transformed_data,  \* the dict returned by transform_dimensions
    db,                \* the MySQL schema dwh_university: table name -> table
    fk_checks,         \* the session's FOREIGN_KEY_CHECKS
    df,                \* the frames generate_business_facts read back
    out,               \* what the run printed
    sql,               \* the statements and writes the run issued, in order
    raised,            \* an exception left the function the run was started with
    exc,               \* where the exception of the run was raised, "" for none
    first,             \* the schema as the first create_transformed_tables left it
    other              \* a second run of main, while the process does not run it

vars ==
    <<entry, pc, ip, files, transformed_data, db, fk_checks, df, out, sql, raised, exc, first,
      other>>

----------------------------------------------------------------------------
(* Bounds of the model *)

\* department ids of the input files are 1 .. MaxDeptId
MaxDeptId == 3
\* rows per table in the inputs drawn for one function
MaxRows == 2

----------------------------------------------------------------------------
(* Values *)

NaN == -1
BadText == -2
NaT == [y |-> 0, m |-> 0, d |-> 0]

\* datetime.datetime.now().year; the model's clock stands at 15 June of it
current_year == 2026
Today == [y |-> current_year, m |-> 6, d |-> 15]

Range(s) == {s[i] : i \in DOMAIN s}

Min(a, b) == IF a <= b THEN a ELSE b
Max(a, b) == IF a >= b THEN a ELSE b

\* every sequence that takes its i-th element from sets[i]
RECURSIVE Product(_)
Product(sets) ==
    IF sets = <<>> THEN {<<>>}
    ELSE {<<h>> \o t : h \in Head(sets), t \in Product(Tail(sets))}

\* pandas / Python "x in valid_ids": NaN equals nothing, itself included
IsIn(x, ids) == x # NaN /\ x \in ids

\* int(x) of a non-negative fixed-point number with one decimal digit
IntOf(x10) == x10 \div 10

\* a whole number as fixed point with one decimal digit
Fixed(n) == n * 10

\* days / 365.25 truncated toward zero by astype(int)
YearsTruncated(days) ==
    IF days >= 0 THEN (4 * days) \div 1461 ELSE 0 - ((4 * (0 - days)) \div 1461)

\* (days / 365.25).round(1), in tenths of a year
YearsRounded1(days) ==
    IF days >= 0 THEN (80 * days + 1461) \div 2922
    ELSE 0 - ((80 * (0 - days) + 1461) \div 2922)

\* round(x, 1) of a value given in hundredths: the result in tenths, ties to even
Round1(x100) ==
    LET a == IF x100 >= 0 THEN x100 ELSE 0 - x100
        q == a \div 10
        r == a % 10
        n == IF r > 5 \/ (r = 5 /\ q % 2 = 1) THEN q + 1 ELSE q
    IN  IF x100 >= 0 THEN n ELSE 0 - n

\* drop_duplicates(subset=[key]) of the rows s whose key values are keys: a row is
\* dropped when an earlier row has its key (pandas counts two NaN as equal here)
RECURSIVE FirstOfEach(_, _, _)
FirstOfEach(s, keys, i) ==
    IF i > Len(s) THEN <<>>
    ELSE (IF \E j \in 1 .. (i - 1) : keys[j] = keys[i] THEN <<>> ELSE <<s[i]>>)
         \o FirstOfEach(s, keys, i + 1)

\* drop_duplicates(keep='last'): a row is dropped when a later row has its key
DropDuplicatesLast(s, keys) ==
    LET kept == SelectSeq([i \in DOMAIN s |-> [row |-> s[i], at |-> i]],
                          LAMBDA e : \A j \in (e.at + 1) .. Len(s) : keys[j] # keys[e.at])
    IN  [i \in DOMAIN kept |-> kept[i].row]

DropDuplicates(s, keys) == FirstOfEach(s, keys, 1)

----------------------------------------------------------------------------
(* transform_dimensions: departments *)

valid_dept_ids(departments) == {r.department_id : r \in Range(departments)}

valid_manager_ids(employees) == {r.employee_id : r \in Range(employees)} \cup {0}

\* the lambda of manager_id as a fillna(0): only a missing reference becomes 0
CleanManagerIdFilled(x, managers) == IF x = NaN THEN 0 ELSE x

CleanManagerId(x, managers) == IF IsIn(x, managers) THEN x ELSE 0

CleanDepartments(departments, employees) ==
    [i \in DOMAIN departments |->
        [departments[i] EXCEPT
            !.manager_id = CleanManagerId(@, valid_manager_ids(employees))]]

----------------------------------------------------------------------------
(* transform_dimensions: students *)

\* random.randint(2019, current_year)
RandomAdmissionYears == {Fixed(y) : y \in 2019 .. current_year}

AdmissionYearKept(x) ==
    x # NaN /\ 2000 <= IntOf(x) /\ IntOf(x) <= current_year

\* the values the lambda of admission_year can return for x
AdmissionYears(x) == IF AdmissionYearKept(x) THEN {x} ELSE RandomAdmissionYears

\* age of a birth date given as the days from it to today; NaT gives fillna(0)
AgeOf(birth_days) == IF birth_days = NaN THEN 0 ELSE YearsTruncated(birth_days)

AgeAccepted(age) == age >= 16 /\ age <= 60

StudentWithAge(r) ==
    [student_id |-> r.student_id, birth_days |-> r.birth_days,
     admission_year |-> r.admission_year, age |-> AgeOf(r.birth_days)]

StudentRows(r) ==
    {[StudentWithAge(r) EXCEPT !.admission_year = a] : a \in AdmissionYears(r.admission_year)}

\* the filter written with strict comparisons
StudentKeptStrict(r) == r.age > 16 /\ r.age < 60

StudentKept(r) == AgeAccepted(r.age)

\* every cleaned student table the run can produce from the raw one
CleanStudents(students) ==
    {LET kept == SelectSeq(s, StudentKept)
     IN  DropDuplicates(kept, [i \in DOMAIN kept |-> kept[i].student_id]) :
        s \in Product([i \in DOMAIN students |-> StudentRows(students[i])])}

----------------------------------------------------------------------------
(* transform_dimensions: employees *)

\* the lambda of department_id as a fill of the missing references only
DepartmentIdsFilled(x, valid) == IF x = NaN THEN valid ELSE {x}

\* the lambda of department_id without its membership test
DepartmentIdsUntested(x, valid) == {x}

\* the department ids the lambda of department_id can return for x; none when the
\* department table is empty, where random.choice raises IndexError
DepartmentIds(x, valid) == IF IsIn(x, valid) THEN {x} ELSE valid

\* tenure_years, in tenths of a year, of a hire date given as the days from it to
\* today; NaT gives fillna(0)
TenureOf(hire_days) == IF hire_days = NaN THEN 0 ELSE YearsRounded1(hire_days)

salary_ranges ==
    ("Professor" :> <<70000, 120000>>) @@
    ("Associate Professor" :> <<60000, 90000>>) @@
    ("Assistant Professor" :> <<50000, 75000>>) @@
    ("Lecturer" :> <<40000, 60000>>) @@
    ("HR Manager" :> <<55000, 80000>>) @@
    ("Finance Officer" :> <<45000, 70000>>) @@
    ("Department Head" :> <<80000, 130000>>) @@
    ("Administrative Assistant" :> <<35000, 50000>>) @@
    ("IT Support" :> <<40000, 65000>>) @@
    ("Research Assistant" :> <<30000, 45000>>)

default_range == <<30000, 120000>>

\* salary_ranges.get(job_title, default_range)
SalaryBand(job_title) ==
    IF job_title \in DOMAIN salary_ranges THEN salary_ranges[job_title] ELSE default_range

\* random.uniform(lo, hi): both ends and the middle stand for the interval
Uniform(band) == {band[1], (band[1] + band[2]) \div 2, band[2]}

\* sal after the try/except: float(salary), or a default draw when float() raises
ParsedSalaries(salary) == IF salary = BadText THEN Uniform(default_range) ELSE {salary}

\* a comparison with NaN is False, so NaN is not out of any band
OutOfBand(sal, band) == sal # NaN /\ (sal < band[1] \/ sal > band[2])

\* the values adjust_salary can return for a row; salaries are whole amounts, which
\* round(sal, 2) leaves as they are
adjust_salary(row) ==
    LET band == SalaryBand(row.job_title)
    IN  UNION {IF OutOfBand(sal, band) THEN Uniform(band) ELSE {sal} :
                  sal \in ParsedSalaries(row.salary)}

EmployeeRows(r, valid) ==
    {[employee_id |-> r.employee_id, department_id |-> d, job_title |-> r.job_title,
      salary |-> sal, hire_days |-> r.hire_days, tenure_years |-> TenureOf(r.hire_days)] :
        d \in DepartmentIds(r.department_id, valid), sal \in adjust_salary(r)}

\* every cleaned employee table the run can produce; none when random.choice raises
CleanEmployees(employees, departments) ==
    {DropDuplicates(s, [i \in DOMAIN s |-> s[i].employee_id]) :
        s \in Product([i \in DOMAIN employees |->
                          EmployeeRows(employees[i], valid_dept_ids(departments))])}

----------------------------------------------------------------------------
(* transform_dimensions: courses *)

Digit ==
    ("0" :> 0) @@ ("1" :> 1) @@ ("2" :> 2) @@ ("3" :> 3) @@ ("4" :> 4) @@
    ("5" :> 5) @@ ("6" :> 6) @@ ("7" :> 7) @@ ("8" :> 8) @@ ("9" :> 9)

IsDigit(c) == c \in DOMAIN Digit

\* int() of the run of digits of code that starts at i, after the value n read so far
RECURSIVE DigitRun(_, _, _)
DigitRun(code, i, n) ==
    IF i > Len(code) \/ ~IsDigit(code[i]) THEN n
    ELSE DigitRun(code, i + 1, 10 * n + Digit[code[i]])

\* re.search(r'(\d+)', code): where the first digit of code is, or 0
FirstDigit(code) ==
    IF \E i \in DOMAIN code : IsDigit(code[i])
    THEN CHOOSE i \in DOMAIN code :
            IsDigit(code[i]) /\ \A j \in 1 .. (i - 1) : ~IsDigit(code[j])
    ELSE 0

\* the level with the bounds 200 and 400 taken into the lower level
extract_course_level_inclusive(code) ==
    IF FirstDigit(code) = 0 THEN "Unknown"
    ELSE LET number == DigitRun(code, FirstDigit(code), 0)
         IN  IF number <= 200 THEN "Introductory"
             ELSE IF number <= 400 THEN "Intermediate"
             ELSE "Advanced"

\* a course code is the sequence of its characters
extract_course_level(code) ==
    IF FirstDigit(code) = 0 THEN "Unknown"
    ELSE LET number == DigitRun(code, FirstDigit(code), 0)
         IN  IF number < 200 THEN "Introductory"
             ELSE IF number < 400 THEN "Intermediate"
             ELSE "Advanced"

\* the lambda of credit_hours as a fill of the missing values only
CreditHoursFilled(x) == IF x = NaN THEN {2, 3, 4} ELSE {x}

\* the values the lambda of credit_hours can return for x
CreditHours(x) == IF x \in {2, 3, 4} THEN {x} ELSE {2, 3, 4}

CourseRows(r) ==
    {[course_id |-> r.course_id, course_code |-> r.course_code, credit_hours |-> h,
      course_level |-> extract_course_level(r.course_code)] :
        h \in CreditHours(r.credit_hours)}

CleanCourses(courses) ==
    {DropDuplicates(s, [i \in DOMAIN s |-> s[i].course_id]) :
        s \in Product([i \in DOMAIN courses |-> CourseRows(courses[i])])}

----------------------------------------------------------------------------
(* transform_dimensions: accounts, vendors, dates *)

valid_account_types == {"Asset", "Liability", "Equity", "Revenue", "Expense"}

CleanAccountType(x) == IF x \in valid_account_types THEN x ELSE "Expense"

CleanAccounts(accounts) ==
    [i \in DOMAIN accounts |-> [accounts[i] EXCEPT !.account_type = CleanAccountType(@)]]

\* only the text columns of a vendor are cleaned; the model keeps its id
CleanVendors(vendors) == vendors

\* the label with May counted as a month of spring
calculate_semester_spring_to_may(date) ==
    IF date = NaT THEN <<>>
    ELSE IF date.m \in {1, 2, 3, 4, 5} THEN <<"Spring", date.y>>
    ELSE IF date.m \in {6, 7, 8} THEN <<"Summer", date.y>>
    ELSE <<"Fall", date.y>>

\* the semester label as <<season, year>>; None is <<>>
calculate_semester(date) ==
    IF date = NaT THEN <<>>
    ELSE IF date.m \in {1, 2, 3, 4} THEN <<"Spring", date.y>>
    ELSE IF date.m \in {5, 6, 7, 8} THEN <<"Summer", date.y>>
    ELSE <<"Fall", date.y>>

\* .dt.year, .dt.month, .dt.day of a date; NaN for NaT
DatePart(date, part) == IF date = NaT THEN NaN ELSE part

DateRow(r) ==
    [date_key |-> r.date_key, date |-> r.date,
     year |-> DatePart(r.date, r.date.y), month |-> DatePart(r.date, r.date.m),
     day |-> DatePart(r.date, r.date.d), semester |-> calculate_semester(r.date)]

CleanDates(dates) == [i \in DOMAIN dates |-> DateRow(dates[i])]

----------------------------------------------------------------------------
(* transform_dimensions *)

\* every dict transform_dimensions can return for the files f
TransformOutcomes(f) ==
    {[students |-> st, employees |-> em, courses |-> co,
      departments |-> CleanDepartments(f.departments, f.employees),
      accounts |-> CleanAccounts(f.accounts), vendors |-> CleanVendors(f.vendors),
      dates |-> CleanDates(f.dates)] :
        st \in CleanStudents(f.students),
        em \in CleanEmployees(f.employees, f.departments),
        co \in CleanCourses(f.courses)}

----------------------------------------------------------------------------
(* The schema.  A table is [exists, rows, pk, fks]: pk is its PRIMARY KEY column   *)
(* ("" for none) and fks its FOREIGN KEY (column) REFERENCES table declarations.   *)
(* The server enforces a primary key on every insert.  Whether it enforces a       *)
(* foreign key depends on the storage engine and on FOREIGN_KEY_CHECKS, so the     *)
(* model records the declarations and lets no insert depend on them: any insert    *)
(* may be rejected (Raise), none is rejected for a dangling reference.             *)

DimTables ==
    {"dim_date", "dim_student", "dim_course", "dim_department", "dim_employee",
     "dim_account", "dim_vendor"}

FactTables == {"fact_academics", "fact_hr_metrics", "fact_finance"}

Tables == DimTables \cup FactTables

Absent == [exists |-> FALSE, rows |-> <<>>, pk |-> "", fks |-> {}]

Created(pk, fks) == [exists |-> TRUE, rows |-> <<>>, pk |-> pk, fks |-> fks]

Set(value) == [op |-> "SET", tables |-> <<>>, value |-> value, pk |-> "", fks |-> {}]

Drop(tables) == [op |-> "DROP", tables |-> tables, value |-> 0, pk |-> "", fks |-> {}]

Create(table, pk, fks) ==
    [op |-> "CREATE", tables |-> <<table>>, value |-> 0, pk |-> pk, fks |-> fks]

\* create_transformed_tables with fact_academics created ahead of dim_employee
CreateStatementsFactFirst ==
    << Set(0),
       Drop(<<"fact_academics", "fact_hr_metrics", "fact_finance">>),
       Drop(<<"dim_student", "dim_course", "dim_employee", "dim_department",
              "dim_account", "dim_vendor", "dim_date">>),
       Create("dim_date", "date_key", {}),
       Create("dim_student", "student_id", {}),
       Create("dim_course", "course_id", {}),
       Create("dim_department", "department_id", {}),
       Create("fact_academics", "record_id",
              {<<"date_key", "dim_date">>, <<"student_id", "dim_student">>,
               <<"course_id", "dim_course">>, <<"employee_id", "dim_employee">>}),
       Create("dim_employee", "employee_id", {<<"department_id", "dim_department">>}),
       Create("dim_account", "account_id", {}),
       Create("dim_vendor", "vendor_id", {}),
       Create("fact_hr_metrics", "record_id",
              {<<"employee_id", "dim_employee">>, <<"department_id", "dim_department">>,
               <<"date_key", "dim_date">>}),
       Create("fact_finance", "record_id",
              {<<"date_key", "dim_date">>, <<"account_id", "dim_account">>,
               <<"department_id", "dim_department">>, <<"vendor_id", "dim_vendor">>}),
       Set(1) >>

\* create_transformed_tables with dim_vendor left out of the DROP of the dimensions
CreateStatementsVendorKept ==
    << Set(0),
       Drop(<<"fact_academics", "fact_hr_metrics", "fact_finance">>),
       Drop(<<"dim_student", "dim_course", "dim_employee", "dim_department",
              "dim_account", "dim_date">>),
       Create("dim_date", "date_key", {}),
       Create("dim_student", "student_id", {}),
       Create("dim_course", "course_id", {}),
       Create("dim_department", "department_id", {}),
       Create("dim_employee", "employee_id", {<<"department_id", "dim_department">>}),
       Create("dim_account", "account_id", {}),
       Create("dim_vendor", "vendor_id", {}),
       Create("fact_academics", "record_id",
              {<<"date_key", "dim_date">>, <<"student_id", "dim_student">>,
               <<"course_id", "dim_course">>, <<"employee_id", "dim_employee">>}),
       Create("fact_hr_metrics", "record_id",
              {<<"employee_id", "dim_employee">>, <<"department_id", "dim_department">>,
               <<"date_key", "dim_date">>}),
       Create("fact_finance", "record_id",
              {<<"date_key", "dim_date">>, <<"account_id", "dim_account">>,
               <<"department_id", "dim_department">>, <<"vendor_id", "dim_vendor">>}),
       Set(1) >>

\* the statements of create_transformed_tables, in the order it executes them
CreateStatements ==
    << Set(0),
       Drop(<<"fact_academics", "fact_hr_metrics", "fact_finance">>),
       Drop(<<"dim_student", "dim_course", "dim_employee", "dim_department",
              "dim_account", "dim_vendor", "dim_date">>),
       Create("dim_date", "date_key", {}),
       Create("dim_student", "student_id", {}),
       Create("dim_course", "course_id", {}),
       Create("dim_department", "department_id", {}),
       Create("dim_employee", "employee_id", {<<"department_id", "dim_department">>}),
       Create("dim_account", "account_id", {}),
       Create("dim_vendor", "vendor_id", {}),
       Create("fact_academics", "record_id",
              {<<"date_key", "dim_date">>, <<"student_id", "dim_student">>,
               <<"course_id", "dim_course">>, <<"employee_id", "dim_employee">>}),
       Create("fact_hr_metrics", "record_id",
              {<<"employee_id", "dim_employee">>, <<"department_id", "dim_department">>,
               <<"date_key", "dim_date">>}),
       Create("fact_finance", "record_id",
              {<<"date_key", "dim_date">>, <<"account_id", "dim_account">>,
               <<"department_id", "dim_department">>, <<"vendor_id", "dim_vendor">>}),
       Set(1) >>

\* CREATE TABLE of a table that exists is an error; DROP TABLE IF EXISTS never is
StatementFails(stmt, d) == stmt.op = "CREATE" /\ d[stmt.tables[1]].exists

\* the schema after stmt when DROP TABLE empties a table and leaves it in place
StatementEffectTruncating(stmt, d) ==
    IF stmt.op = "DROP"
        THEN [t \in Tables |-> IF t \in Range(stmt.tables) THEN [d[t] EXCEPT !.rows = <<>>]
                                ELSE d[t]]
    ELSE IF stmt.op = "CREATE" /\ ~d[stmt.tables[1]].exists
        THEN [d EXCEPT ![stmt.tables[1]] = Created(stmt.pk, stmt.fks)]
    ELSE d

\* the schema after stmt
StatementEffect(stmt, d) ==
    IF stmt.op = "DROP"
        THEN [t \in Tables |-> IF t \in Range(stmt.tables) THEN Absent ELSE d[t]]
    ELSE IF stmt.op = "CREATE"
        THEN [d EXCEPT ![stmt.tables[1]] = Created(stmt.pk, stmt.fks)]
    ELSE d

\* the key values of rows under the primary key pk; record_id is AUTO_INCREMENT
KeysOf(rows, pk) == [i \in DOMAIN rows |-> rows[i][pk]]

\* the server rejects the insert of rows into table: a NULL or repeated primary key
InsertFails(table, rows) ==
    /\ table.exists
    /\ table.pk \notin {"", "record_id"}
    /\ LET new == KeysOf(rows, table.pk)
           old == KeysOf(table.rows, table.pk)
       IN  \/ \E i \in DOMAIN new : new[i] = NaN
           \/ \E i, j \in DOMAIN new : i # j /\ new[i] = new[j]
           \/ \E i \in DOMAIN new, j \in DOMAIN old : new[i] = old[j]

\* DataFrame.to_sql(name, if_exists="replace"): the table is dropped and rebuilt
ToSqlReplace(table, rows) == [exists |-> TRUE, rows |-> rows, pk |-> "", fks |-> {}]

\* DataFrame.to_sql(name, if_exists="append"): the rows are appended; a table that
\* does not exist is created first, without keys
ToSql(table, rows) ==
    IF table.exists THEN [table EXCEPT !.rows = @ \o rows]
    ELSE [exists |-> TRUE, rows |-> rows, pk |-> "", fks |-> {}]

Insert(name) == [op |-> "INSERT", tables |-> <<name>>, value |-> 0, pk |-> "", fks |-> {}]

Select(name) == [op |-> "SELECT", tables |-> <<name>>, value |-> 0, pk |-> "", fks |-> {}]

\* ensure_sql_types_before_load: a date column becomes a DATE, NaT becomes NULL; the
\* model's dates carry no time of day, so a row keeps its value
ensure_sql_types_before_load(rows) == rows

\* load_transformed_data with the students written ahead of the departments
LoadOrderStudentsFirst ==
    << [key |-> "dates", table |-> "dim_date"],
       [key |-> "students", table |-> "dim_student"],
       [key |-> "departments", table |-> "dim_department"],
       [key |-> "accounts", table |-> "dim_account"],
       [key |-> "vendors", table |-> "dim_vendor"],
       [key |-> "courses", table |-> "dim_course"] >>

\* the writes of load_transformed_data before the employees, in order
LoadOrder ==
    << [key |-> "dates", table |-> "dim_date"],
       [key |-> "departments", table |-> "dim_department"],
       [key |-> "accounts", table |-> "dim_account"],
       [key |-> "vendors", table |-> "dim_vendor"],
       [key |-> "courses", table |-> "dim_course"],
       [key |-> "students", table |-> "dim_student"] >>

\* the lambda of load_transformed_data keeping every x, valid or not
LoaderDepartmentIdsKept(x, valid) == {x}

\* the department ids the lambda of load_transformed_data can return for x
LoaderDepartmentIds(x, valid) == IF IsIn(x, valid) THEN {x} ELSE valid

\* employee_dept_ids - valid_dept_ids
invalid_dept_ids(employees, departments) ==
    {r.department_id : r \in Range(employees)} \ (valid_dept_ids(departments) \ {NaN})

\* every employee table the repair of load_transformed_data can leave
RepairedEmployees(employees, departments) ==
    Product([i \in DOMAIN employees |->
        {[employees[i] EXCEPT !.department_id = d] :
            d \in LoaderDepartmentIds(employees[i].department_id,
                                      valid_dept_ids(departments))}])

----------------------------------------------------------------------------
(* generate_business_facts.  Columns no property reads (fee_paid, overtime_hours,  *)
(* leave_days_taken, amount, description, reference_number) are left out, and the  *)
(* rows of one write are kept in the order of the frame they were computed from.   *)

\* job_title.str.contains('Professor|Lecturer') and 'Professor' in str(job_title),
\* over the job titles of the model
TitlesWithProfessor == {"Professor", "Associate Professor", "Assistant Professor"}

TitlesWithLecturer == {"Lecturer"}

IsInstructor(r) == r.job_title \in TitlesWithProfessor \cup TitlesWithLecturer

\* the instructor sampled from all the employees
InstructorsAny(employees) == employees

\* the frame an instructor is sampled from: profs, or every employee when it is empty
Instructors(employees) ==
    LET profs == SelectSeq(employees, IsInstructor)
    IN  IF profs = <<>> THEN employees ELSE profs

\* draws of the student sample in the model; the code draws 5000
SampleSize == 3

\* the sampled ids as drawn, a repeated id as often as it was drawn
drawn(s) == s

\* Series.unique(): the values in the order of their first appearance
unique(s) == DropDuplicates(s, s)

\* Series.sample(5000, replace=True).unique(): the ids of SampleSize rows drawn
\* with replacement, each id once; none when the frame is empty, where sample raises
SampledStudentIds(students) ==
    {unique([i \in 1 .. SampleSize |-> students[at[i]].student_id]) :
        at \in [1 .. SampleSize -> DOMAIN students]}

\* df_students[df_students['student_id'] == student_id].iloc[0]
FirstWith(rows, column, value) ==
    rows[CHOOSE i \in DOMAIN rows :
            rows[i][column] = value /\ \A j \in 1 .. (i - 1) : rows[j][column] # value]

\* random.gauss(70, 12), random.gauss(0, 8) and random.gauss(3.5, 0.5), in hundredths
GaussGrade == {-496, 7004, 9996}

GaussNoise == {-4000, 4, 4000}

GaussRating == {-3, 352, 480}

\* max(lo, min(hi, x)) left out: the value as drawn
Unclipped(lo, hi, x) == x

Clip(lo, hi, x) == Max(lo, Min(hi, x))

\* grade and attendance before rounding, in hundredths
GradeOf(base_grade, course, student) ==
    Clip(0, 10000,
         base_grade
         + (IF course.course_level = "Advanced" THEN -500
            ELSE IF course.course_level = "Introductory" THEN 500 ELSE 0)
         + (IF student.age > 25 THEN 300 ELSE 0))

AttendanceOf(grade, noise) == Clip(6000, 10000, grade + noise)

\* the rows the academic loop can append for one student
AcademicRows(student, frames) ==
    {[date_key |-> date.date_key, student_id |-> student.student_id,
      course_id |-> course.course_id, employee_id |-> instructor.employee_id,
      grade |-> Round1(GradeOf(g, course, student)),
      attendance_percent |-> Round1(AttendanceOf(GradeOf(g, course, student), n))] :
        course \in Range(frames.courses),
        instructor \in Range(Instructors(frames.employees)),
        date \in Range(frames.dates),
        g \in GaussGrade, n \in GaussNoise}

\* the student of each pass of the loop: the first row of the frame with the id
SampledStudents(frames, ids) ==
    [i \in DOMAIN ids |-> FirstWith(frames.students, "student_id", ids[i])]

\* every academic_data the loop can build
AcademicData(frames) ==
    UNION {Product([i \in DOMAIN SampledStudents(frames, ids) |->
                       AcademicRows(SampledStudents(frames, ids)[i], frames)]) :
              ids \in SampledStudentIds(frames.students)}

\* a sample of the academic loop raises: no student, or a student and an empty frame
AcademicRaises(frames) ==
    \/ frames.students = <<>>
    \/ frames.courses = <<>>
    \/ frames.employees = <<>>
    \/ frames.dates = <<>>

\* date >= cutoff with cutoff two years before today; a comparison with NaT is False
OnOrAfterCutoff(date) ==
    /\ date # NaT
    /\ \/ date.y > Today.y - 2
       \/ date.y = Today.y - 2 /\ date.m > Today.m
       \/ date.y = Today.y - 2 /\ date.m = Today.m /\ date.d >= Today.d

quarterly_dates(dates) ==
    SelectSeq(dates, LAMBDA r : OnOrAfterCutoff(r.date) /\ r.month \in {3, 6, 9, 12})

\* the sub-frames DataFrame.sample(n) can return, kept in the order of the frame
RECURSIVE Samples(_, _)
Samples(rows, n) ==
    IF n = 0 THEN {<<>>}
    ELSE IF Len(rows) < n THEN {}
    ELSE {<<Head(rows)>> \o t : t \in Samples(Tail(rows), n - 1)}
         \cup Samples(Tail(rows), n)

\* selected_dates with the sample size of the fallback, 4, for the quarterly dates
SelectedDatesFourQuarters(dates) ==
    LET sample_size == Min(4, Len(quarterly_dates(dates)))
    IN  IF sample_size = 0 THEN Samples(dates, Min(4, Len(dates)))
        ELSE Samples(quarterly_dates(dates), sample_size)

\* selected_dates without the fallback: a sample of the quarterly dates only
SelectedDatesQuarterlyOnly(dates) ==
    Samples(quarterly_dates(dates), Min(8, Len(quarterly_dates(dates))))

\* selected_dates of one employee
SelectedDates(dates) ==
    LET sample_size == Min(8, Len(quarterly_dates(dates)))
    IN  IF sample_size = 0 THEN Samples(dates, Min(4, Len(dates)))
        ELSE Samples(quarterly_dates(dates), sample_size)

\* performance before rounding, in hundredths; tenure_years is in tenths
PerformanceOf(base_performance, employee) ==
    Clip(100, 500,
         base_performance
         + (IF employee.tenure_years > 50 THEN 30 ELSE 0)
         + (IF employee.job_title \in TitlesWithProfessor THEN 20 ELSE 0))

\* int(employee.get('department_id', 0) or 0) of a NULL department_id: read_sql
\* gives None (then 0) when every row's is NULL, and NaN otherwise, whose int()
\* raises ValueError
AllNull(employees) == \A r \in Range(employees) : r.department_id = NaN

\* the department of an HR row left at the default of employee.get, 0
HrDepartmentIdDefault(employee, employees) == 0

HrDepartmentId(employee, employees) ==
    IF employee.department_id = NaN THEN 0 ELSE employee.department_id

HrRaises(frames) ==
    /\ \E r \in Range(frames.employees) : r.department_id = NaN
    /\ ~AllNull(frames.employees)
    /\ frames.dates # <<>>

\* the rows the HR loop can append for one employee and one selected date
HrRows(employee, date_row, employees) ==
    {[employee_id |-> employee.employee_id,
      department_id |-> HrDepartmentId(employee, employees),
      date_key |-> date_row.date_key,
      performance_rating |-> Round1(PerformanceOf(b, employee))] : b \in GaussRating}

\* the rows the HR loop can append for one employee
RECURSIVE Concat(_)
Concat(seqs) == IF seqs = <<>> THEN <<>> ELSE Head(seqs) \o Concat(Tail(seqs))

EmployeeHrData(employee, frames) ==
    UNION {Product([i \in DOMAIN sel |-> HrRows(employee, sel[i], frames.employees)]) :
              sel \in SelectedDates(frames.dates)}

\* every hr_data the loop can build: one pass per distinct employee_id
HrData(frames) ==
    LET once == DropDuplicates(frames.employees,
                               [i \in DOMAIN frames.employees |-> frames.employees[i].employee_id])
    IN  {Concat(parts) :
            parts \in Product([i \in DOMAIN once |-> EmployeeHrData(once[i], frames)])}

\* iterations of the finance loop the model runs; the code runs range(2000)
FinanceIterations == 2

\* the date of a finance row sampled from the whole calendar
FinanceDatesAny(dates) == dates

\* df_dates[df_dates['year'] >= 2020], or every date when there is none
FinanceDates(dates) ==
    LET valid_dates == SelectSeq(dates, LAMBDA r : r.year # NaN /\ r.year >= 2020)
    IN  IF Len(valid_dates) > 0 THEN valid_dates ELSE dates

\* the test written on 'Revenue': every other account type becomes an expense
TransactionTypeRevenueTested(account) ==
    IF account.account_type = "Revenue" THEN "Revenue" ELSE "Expense"

TransactionType(account) == IF account.account_type = "Expense" THEN "Expense" ELSE "Revenue"

\* the rows one iteration of the finance loop can append
FinanceRows(frames) ==
    {[date_key |-> date.date_key, account_id |-> account.account_id,
      department_id |-> department.department_id, vendor_id |-> vendor.vendor_id,
      transaction_type |-> TransactionType(account)] :
        account \in Range(frames.accounts), department \in Range(frames.departments),
        vendor \in Range(frames.vendors), date \in Range(FinanceDates(frames.dates))}

FinanceData(frames) == Product([i \in 1 .. FinanceIterations |-> FinanceRows(frames)])

FinanceRaises(frames) ==
    \/ frames.accounts = <<>>
    \/ frames.departments = <<>>
    \/ frames.vendors = <<>>
    \/ frames.dates = <<>>

----------------------------------------------------------------------------
(* The run *)

NoData ==
    [students |-> <<>>, employees |-> <<>>, courses |-> <<>>, departments |-> <<>>,
     accounts |-> <<>>, vendors |-> <<>>, dates |-> <<>>]

NoSchema == [t \in Tables |-> Absent]

\* main with the load called ahead of the schema creation
AfterStageLoadFirst(fn) ==
    IF fn = "transform_dimensions" THEN "load"
    ELSE IF fn = "load_transformed_data" THEN "create"
    ELSE IF fn = "create_transformed_tables" THEN "gen_read"
    ELSE "success"

\* main: what follows the call of fn
AfterStage(fn) ==
    IF fn = "transform_dimensions" THEN "create"
    ELSE IF fn = "create_transformed_tables" THEN "load"
    ELSE IF fn = "load_transformed_data" THEN "gen_read"
    ELSE "success"

\* where the run goes when function fn returns: on in main, out otherwise
Returns(fn) == IF entry = fn THEN "done" ELSE AfterStage(fn)

\* where an exception goes: to the except clause of main, or out of the function
Thrown == IF entry = "main" THEN "except" ELSE "done"

\* the line a function prints as it starts, when the run stands at its first step
Started ==
    IF pc = "transform" THEN <<"Performing ETL transformations on dimension data...">>
    ELSE IF pc = "create" /\ ip = 1 THEN <<"Creating transformed tables...">>
    ELSE IF pc = "load" /\ ip = 1 THEN <<"Loading transformed data into database...">>
    ELSE IF pc = "gen_read" THEN <<"Generating fact tables with business logic...">>
    ELSE <<>>

Throw ==
    /\ pc' = Thrown
    /\ raised' = (entry # "main")
    /\ exc' = pc

\* main: transformed_data = transform_dimensions()
TransformDimensions ==
    /\ pc = "transform"
    /\ out' = out \o Started
    /\ IF TransformOutcomes(files) = {}
          THEN Throw /\ UNCHANGED transformed_data
          ELSE /\ transformed_data' \in TransformOutcomes(files)
               /\ pc' = Returns("transform_dimensions")
               /\ UNCHANGED <<raised, exc>>
    /\ UNCHANGED <<other, entry, ip, files, db, fk_checks, df, sql, first>>

\* one conn.execute of create_transformed_tables
ExecuteStatement ==
    /\ pc = "create"
    /\ LET stmt == CreateStatements[ip]
           last == ip = Len(CreateStatements)
       IN  /\ sql' = Append(sql, stmt)
           /\ IF StatementFails(stmt, db)
                 THEN /\ Throw
                      /\ out' = out \o Started
                      /\ UNCHANGED <<db, fk_checks, ip>>
                 ELSE /\ db' = StatementEffect(stmt, db)
                      /\ fk_checks' = IF stmt.op = "SET" THEN stmt.value ELSE fk_checks
                      /\ out' = out \o Started
                                \o (IF last THEN <<"All tables created successfully!">> ELSE <<>>)
                      /\ pc' = IF last THEN Returns("create_transformed_tables") ELSE pc
                      /\ ip' = IF last THEN 1 ELSE ip + 1
                      /\ UNCHANGED <<raised, exc>>
    /\ UNCHANGED <<other, entry, files, transformed_data, df, first>>

\* one to_sql of load_transformed_data before the employees
LoadDimension ==
    /\ pc = "load"
    /\ LET step == LoadOrder[ip]
           rows == IF step.key \in {"dates", "students"}
                   THEN ensure_sql_types_before_load(transformed_data[step.key])
                   ELSE transformed_data[step.key]
           last == ip = Len(LoadOrder)
       IN  /\ sql' = Append(sql, Insert(step.table))
           /\ out' = out \o Started
           /\ IF InsertFails(db[step.table], rows)
                 THEN Throw /\ UNCHANGED <<db, ip>>
                 ELSE /\ db' = [db EXCEPT ![step.table] = ToSql(@, rows)]
                      /\ pc' = IF last THEN "load_check" ELSE pc
                      /\ ip' = IF last THEN 1 ELSE ip + 1
                      /\ UNCHANGED <<raised, exc>>
    /\ UNCHANGED <<other, entry, files, transformed_data, fk_checks, df, first>>

\* load_transformed_data: the check of the employees' department ids and the repair
RepairEmployeeDepartments ==
    /\ pc = "load_check"
    /\ LET employees == transformed_data.employees
           departments == transformed_data.departments
       IN  IF invalid_dept_ids(employees, departments) = {}
              THEN /\ pc' = "load_employees"
                   /\ UNCHANGED <<transformed_data, out, raised, exc>>
              ELSE /\ out' = Append(out, "Warning: Found invalid department IDs in employees")
                   /\ IF RepairedEmployees(employees, departments) = {}
                         THEN Throw /\ UNCHANGED transformed_data
                         ELSE /\ \E repaired \in RepairedEmployees(employees, departments) :
                                    transformed_data' =
                                        [transformed_data EXCEPT !.employees = repaired]
                              /\ pc' = "load_employees"
                              /\ UNCHANGED <<raised, exc>>
    /\ UNCHANGED <<other, entry, ip, files, db, fk_checks, df, sql, first>>

\* load_transformed_data: the to_sql of the employees
LoadEmployees ==
    /\ pc = "load_employees"
    /\ LET rows == ensure_sql_types_before_load(transformed_data.employees)
       IN  /\ sql' = Append(sql, Insert("dim_employee"))
           /\ IF InsertFails(db["dim_employee"], rows)
                 THEN Throw /\ UNCHANGED <<db, out>>
                 ELSE /\ db' = [db EXCEPT !["dim_employee"] = ToSql(@, rows)]
                      /\ out' = Append(out, "All transformed data loaded successfully!")
                      /\ pc' = Returns("load_transformed_data")
                      /\ UNCHANGED <<raised, exc>>
    /\ UNCHANGED <<other, entry, ip, files, transformed_data, fk_checks, df, first>>

\* generate_business_facts: the seven read_sql
GenerateRead ==
    /\ pc = "gen_read"
    /\ out' = out \o Started
    /\ IF \E t \in DimTables : ~db[t].exists
          THEN Throw /\ UNCHANGED <<df, sql>>
          ELSE /\ df' = [students |-> db["dim_student"].rows,
                         courses |-> db["dim_course"].rows,
                         employees |-> db["dim_employee"].rows,
                         departments |-> db["dim_department"].rows,
                         accounts |-> db["dim_account"].rows,
                         vendors |-> db["dim_vendor"].rows,
                         dates |-> db["dim_date"].rows]
               /\ sql' = sql \o <<Select("dim_student"), Select("dim_course"),
                                  Select("dim_employee"), Select("dim_department"),
                                  Select("dim_account"), Select("dim_vendor"),
                                  Select("dim_date")>>
               /\ pc' = "gen_academic"
               /\ UNCHANGED <<raised, exc>>
    /\ UNCHANGED <<other, entry, ip, files, transformed_data, db, fk_checks, first>>

\* generate_business_facts: the academic loop and its to_sql
GenerateAcademic ==
    /\ pc = "gen_academic"
    /\ IF AcademicRaises(df)
          THEN Throw /\ UNCHANGED <<db, sql>>
          ELSE /\ \E academic_data \in AcademicData(df) :
                     db' = [db EXCEPT !["fact_academics"] = ToSql(@, academic_data)]
               /\ sql' = Append(sql, Insert("fact_academics"))
               /\ pc' = "gen_hr"
               /\ UNCHANGED <<raised, exc>>
    /\ UNCHANGED <<other, entry, ip, files, transformed_data, fk_checks, df, out, first>>

\* generate_business_facts: the HR loop and its to_sql, skipped when hr_data is empty
GenerateHr ==
    /\ pc = "gen_hr"
    /\ IF HrRaises(df)
          THEN Throw /\ UNCHANGED <<db, sql>>
          ELSE /\ \E hr_data \in HrData(df) :
                     IF hr_data = <<>>
                        THEN UNCHANGED <<db, sql>>
                        ELSE /\ db' = [db EXCEPT !["fact_hr_metrics"] = ToSql(@, hr_data)]
                             /\ sql' = Append(sql, Insert("fact_hr_metrics"))
               /\ pc' = "gen_finance"
               /\ UNCHANGED <<raised, exc>>
    /\ UNCHANGED <<other, entry, ip, files, transformed_data, fk_checks, df, out, first>>

\* generate_business_facts: the finance loop and its to_sql
GenerateFinance ==
    /\ pc = "gen_finance"
    /\ IF FinanceRaises(df)
          THEN Throw /\ UNCHANGED <<db, sql>>
          ELSE /\ \E finance_data \in FinanceData(df) :
                     db' = [db EXCEPT !["fact_finance"] = ToSql(@, finance_data)]
               /\ sql' = Append(sql, Insert("fact_finance"))
               /\ pc' = Returns("generate_business_facts")
               /\ UNCHANGED <<raised, exc>>
    /\ UNCHANGED <<other, entry, ip, files, transformed_data, fk_checks, df, out, first>>

\* main: the success banner
Complete ==
    /\ pc = "success"
    /\ out' = Append(out, "REAL ETL process completed successfully!")
    /\ pc' = "done"
    /\ UNCHANGED <<other, entry, ip, files, transformed_data, db, fk_checks, df, sql, raised, exc, first>>

\* a read of the files or a statement sent to the server fails
FailurePoints ==
    {"transform", "create", "load", "load_employees",
     "gen_read", "gen_academic", "gen_hr", "gen_finance"}

\* a failing write of the load undoes the writes of the call made before it
RaiseRollingBack ==
    /\ pc \in FailurePoints
    /\ Throw
    /\ out' = out \o Started
    /\ db' = IF pc \in {"load", "load_employees"}
             THEN [t \in Tables |-> [db[t] EXCEPT !.rows = <<>>]]
             ELSE db
    /\ UNCHANGED <<other, entry, ip, files, transformed_data, fk_checks, df, sql, first>>

Raise ==
    /\ pc \in FailurePoints
    /\ Throw
    /\ out' = out \o Started
    /\ UNCHANGED <<other, entry, ip, files, transformed_data, db, fk_checks, df, sql, first>>

\* main with an except clause that prints and does not re-raise
ExceptSwallowed ==
    /\ pc = "except"
    /\ out' = Append(out, "ETL process failed")
    /\ raised' = FALSE
    /\ pc' = "done"
    /\ UNCHANGED <<other, entry, ip, files, transformed_data, db, fk_checks, df, sql, exc, first>>

\* main: except Exception as e: print(...); raise
Except ==
    /\ pc = "except"
    /\ out' = Append(out, "ETL process failed")
    /\ raised' = TRUE
    /\ pc' = "done"
    /\ UNCHANGED <<other, entry, ip, files, transformed_data, db, fk_checks, df, sql, exc, first>>

\* create_transformed_tables is called a second time, right after the first
CallAgain ==
    /\ entry = "create_transformed_tables"
    /\ pc = "done"
    /\ ~raised
    /\ ~first.taken
    /\ first' = [taken |-> TRUE, db |-> db, fk_checks |-> fk_checks]
    /\ pc' = "create"
    /\ ip' = 1
    /\ UNCHANGED <<other, entry, files, transformed_data, db, fk_checks, df, out, sql, raised, exc>>

----------------------------------------------------------------------------
(* Inputs *)

Department(id, manager) == [department_id |-> id, manager_id |-> manager]

Employee(id, department, title, salary, hire_days) ==
    [employee_id |-> id, department_id |-> department, job_title |-> title,
     salary |-> salary, hire_days |-> hire_days]

Student(id, birth_days, admission_year) ==
    [student_id |-> id, birth_days |-> birth_days, admission_year |-> admission_year]

Course(id, code, hours) == [course_id |-> id, course_code |-> code, credit_hours |-> hours]

Account(id, type) == [account_id |-> id, account_type |-> type]

Vendor(id) == [vendor_id |-> id]

Date(y, m, d) == [date_key |-> y * 10000 + m * 100 + d, date |-> [y |-> y, m |-> m, d |-> d]]

\* the department tables with ids i .. MaxDeptId, and the empty one
DepartmentTables ==
    {[j \in 1 .. (MaxDeptId - i) |-> Department(i + j, NaN)] : i \in 0 .. MaxDeptId}

\* every table of at most MaxRows rows drawn from rows
TablesOf(rows) == UNION {[1 .. n -> rows] : n \in 0 .. MaxRows}

\* every table of at most MaxRows rows whose i-th row is among rows(i)
KeyedTablesOf(rows(_)) == UNION {Product([i \in 1 .. n |-> rows(i)]) : n \in 0 .. MaxRows}

CS101 == <<"C", "S", "1", "0", "1">>

SmallFiles ==
    [students |-> <<Student(1, 7305, Fixed(2021))>>,
     employees |-> <<Employee(1, 1, "Professor", 80000, 3000)>>,
     courses |-> <<Course(1, CS101, 3)>>,
     departments |-> <<Department(1, NaN)>>,
     accounts |-> <<Account(1, "Expense")>>,
     vendors |-> <<Vendor(1)>>,
     dates |-> <<Date(current_year - 1, 3, 15)>>]

\* the schema after the statements stmts, none of which fails
RECURSIVE Executed(_, _)
Executed(stmts, d) ==
    IF stmts = <<>> THEN d ELSE Executed(Tail(stmts), StatementEffect(Head(stmts), d))

\* the schema as create_transformed_tables leaves it
FreshSchema == Executed(CreateStatements, NoSchema)

\* the files of an earlier run, whose ids no other input of the model uses
OldFiles ==
    [students |-> <<Student(9, 7305, Fixed(2020))>>,
     employees |-> <<Employee(9, 9, "Lecturer", 50000, 3000)>>,
     courses |-> <<Course(9, CS101, 3)>>,
     departments |-> <<Department(9, NaN)>>,
     accounts |-> <<Account(9, "Expense")>>,
     vendors |-> <<Vendor(9)>>,
     dates |-> <<Date(2019, 1, 31)>>]

\* a schema a previous run of main left behind
PreviousRun ==
    LET old == CHOOSE t \in TransformOutcomes(OldFiles) : TRUE
    IN  [FreshSchema EXCEPT
            !["dim_date"].rows = old.dates,
            !["dim_department"].rows = old.departments,
            !["dim_account"].rows = old.accounts,
            !["dim_vendor"].rows = old.vendors,
            !["dim_course"].rows = old.courses,
            !["dim_student"].rows = old.students,
            !["dim_employee"].rows = old.employees,
            !["fact_finance"].rows =
                <<[date_key |-> old.dates[1].date_key, account_id |-> 9,
                   department_id |-> 9, vendor_id |-> 9, transaction_type |-> "Expense"]>>]

\* no second run
NoRun ==
    [id |-> 0, pc |-> "done", ip |-> 1, transformed_data |-> NoData, fk_checks |-> 1,
     df |-> NoData, out |-> <<>>, sql |-> <<>>, raised |-> FALSE, exc |-> ""]

InitRun(fn, at) ==
    /\ other = NoRun
    /\ entry = fn
    /\ pc = at
    /\ ip = 1
    /\ fk_checks = 1
    /\ df = NoData
    /\ out = <<>>
    /\ sql = <<>>
    /\ raised = FALSE
    /\ exc = ""
    /\ first = [taken |-> FALSE, db |-> NoSchema, fk_checks |-> 1]

----------------------------------------------------------------------------
(* main *)

MainFiles ==
    {[SmallFiles EXCEPT !.departments = de, !.employees = em, !.students = st] :
        de \in {<<Department(1, NaN)>>,
                <<Department(1, NaN), Department(2, NaN), Department(3, NaN)>>},
        em \in {<<Employee(1, 1, "Professor", 80000, 3000)>>,
                <<Employee(1, 99, "IT Support", 50000, 400)>>},
        st \in {<<>>, <<Student(1, 7305, Fixed(2021))>>}}

Init ==
    /\ InitRun("main", "transform")
    /\ files \in MainFiles
    /\ transformed_data = NoData
    /\ db \in {NoSchema, PreviousRun}

Next ==
    \/ TransformDimensions
    \/ ExecuteStatement
    \/ LoadDimension
    \/ RepairEmployeeDepartments
    \/ LoadEmployees
    \/ GenerateRead
    \/ GenerateAcademic
    \/ GenerateHr
    \/ GenerateFinance
    \/ Complete
    \/ Raise
    \/ Except

Spec == Init /\ [][Next]_vars

----------------------------------------------------------------------------
(* transform_dimensions called on its own.  One table of the files is drawn with   *)
(* a first row of every kind and plain further rows; the other tables are those    *)
(* of SmallFiles.                                                                  *)

\* days from the birth date to today: unparsable, and ages 15, 16, 60 and 61
RawBirthDays == {NaN, 5843, 5844, 22280, 22281}

\* missing, 1999, 2000, this year, half a year past it, next year
RawAdmissionYears ==
    {NaN, Fixed(1999), Fixed(2000), Fixed(current_year), Fixed(current_year) + 5,
     Fixed(current_year + 1)}

RawStudents(i) ==
    IF i = 1 THEN {Student(1, b, a) : b \in RawBirthDays, a \in RawAdmissionYears}
    ELSE {Student(1, 7305, Fixed(2021)), Student(i, 5843, NaN)}

StudentFiles == {[SmallFiles EXCEPT !.students = st] : st \in KeyedTablesOf(RawStudents)}

\* a recognized title with a wide band, one with a narrow band, an unrecognized
\* title and a missing one
RawJobTitles == {"Professor", "Research Assistant", "Dean", ""}

\* missing, text, and amounts below, inside and above the bands
RawSalaries == {NaN, BadText, 20000, 40000, 100000, 125000}

RawEmployees(i) ==
    IF i = 1
    THEN {Employee(1, d, t, sal, 3000) :
             d \in {1, 99, NaN}, t \in RawJobTitles, sal \in RawSalaries}
    ELSE {Employee(1, 1, "Lecturer", 50000, NaN), Employee(i, 99, "Lecturer", 50000, 400)}

EmployeeFiles ==
    {[SmallFiles EXCEPT !.employees = em, !.departments = de] :
        em \in KeyedTablesOf(RawEmployees), de \in DepartmentTables}

CS305 == <<"C", "S", "3", "0", "5">>

CS450 == <<"C", "S", "4", "5", "0">>

XYZ == <<"X", "Y", "Z">>

\* the codes of the scenario, the codes at the bounds of the levels, a code with
\* two runs of digits, one with leading zeros, one of four digits and an empty one
RawCourseCodes ==
    {CS101, CS305, CS450, XYZ,
     <<"C", "S", "1", "9", "9">>, <<"C", "S", "2", "0", "0">>,
     <<"C", "S", "3", "9", "9">>, <<"C", "S", "4", "0", "0">>,
     <<"2", "A", "4", "5", "0">>, <<"C", "S", "0", "0", "7">>,
     <<"M", "1", "0", "0", "0">>, <<>>}

\* missing, below, inside and above the accepted credit hours
RawCreditHours == {NaN, 1, 3, 5}

RawCourses(i) ==
    IF i = 1 THEN {Course(1, c, h) : c \in RawCourseCodes, h \in RawCreditHours}
    ELSE {Course(1, CS450, 4), Course(i, XYZ, 2)}

CourseFiles == {[SmallFiles EXCEPT !.courses = co] : co \in KeyedTablesOf(RawCourses)}

\* missing, none, the ids of the first two employees, and the id of no employee
RawManagerIds == {NaN, 0, 1, 2, 77}

RawDepartments(i) == {Department(i, x) : x \in RawManagerIds}

\* the employee tables of ids 1 .. n
ManagedEmployees ==
    {[i \in 1 .. n |-> Employee(i, 1, "Lecturer", 50000, 400)] : n \in 0 .. MaxRows}

DepartmentFiles ==
    {[SmallFiles EXCEPT !.departments = de, !.employees = em] :
        de \in KeyedTablesOf(RawDepartments) \ {<<>>}, em \in ManagedEmployees}

\* the date files and the specification of the function follow the generator, whose
\* rows the date files hold

----------------------------------------------------------------------------
(* create_transformed_tables called twice in succession, on any schema *)

\* to_sql created the table: it has no key
Keyless(table) == [table EXCEPT !.pk = "", !.fks = {}]

InitialSchemas ==
    {[t \in Tables |-> IF t \in present THEN PreviousRun[t] ELSE Absent] :
        present \in SUBSET Tables}
    \cup {[t \in Tables |-> Keyless(PreviousRun[t])]}

InitSchema ==
    /\ InitRun("create_transformed_tables", "create")
    /\ files = SmallFiles
    /\ transformed_data = NoData
    /\ db \in InitialSchemas

NextSchema ==
    \/ ExecuteStatement
    \/ CallAgain

SpecSchema == InitSchema /\ [][NextSchema]_vars

----------------------------------------------------------------------------
(* load_transformed_data called on its own, on any cleaned tables *)

CleanedEmployee(id, department) ==
    [employee_id |-> id, department_id |-> department, job_title |-> "Lecturer",
     salary |-> 50000, hire_days |-> 400, tenure_years |-> TenureOf(400)]

\* the i-th row: employee i in any department, or (a repeated key) employee 1 again
CleanedEmployees(i) ==
    {CleanedEmployee(i, d) : d \in (1 .. MaxDeptId) \cup {99, NaN}}
    \cup (IF i > 1 THEN {CleanedEmployee(1, MaxDeptId)} ELSE {})

LoaderData ==
    {[(CHOOSE t \in TransformOutcomes(SmallFiles) : TRUE)
         EXCEPT !.employees = em, !.departments = CleanDepartments(de, em)] :
        em \in KeyedTablesOf(CleanedEmployees), de \in DepartmentTables}

InitLoader ==
    /\ InitRun("load_transformed_data", "load")
    /\ files = SmallFiles
    /\ transformed_data \in LoaderData
    /\ db \in {FreshSchema, PreviousRun, NoSchema}

NextLoader ==
    \/ LoadDimension
    \/ RepairEmployeeDepartments
    \/ LoadEmployees
    \/ Raise

SpecLoader == InitLoader /\ [][NextLoader]_vars

----------------------------------------------------------------------------
(* generate_business_facts called on its own, on any persisted dimensions *)

PersistedStudents ==
    {<<>>} \cup {<<[student_id |-> 1, birth_days |-> NaN, admission_year |-> Fixed(2021),
                   age |-> a]>> : a \in {20, 30}}

PersistedCourses ==
    {<<[course_id |-> 1, course_code |-> code, credit_hours |-> 3,
        course_level |-> extract_course_level(code)]>> :
        code \in {CS101, <<"C", "S", "3", "0", "5">>, <<"C", "S", "4", "5", "0">>,
                  <<"X", "Y", "Z">>}}

\* no employee, one employee, and an employee who is no instructor before one who is
PersistedEmployees ==
    {<<>>} \cup {<<[CleanedEmployee(1, 1) EXCEPT !.job_title = t, !.tenure_years = y]>> :
                    t \in {"Professor", "IT Support"}, y \in {20, 80}}
    \cup {<<[CleanedEmployee(1, 1) EXCEPT !.job_title = "IT Support"], CleanedEmployee(2, 1)>>}

\* a quarterly date of last year, an old date outside the quarters, both, and the
\* last day of 2019 beside the first of 2020
PersistedDates ==
    {CleanDates(<<Date(current_year - 1, 3, 15)>>),
     CleanDates(<<Date(2019, 1, 31)>>),
     CleanDates(<<Date(2019, 1, 31), Date(current_year - 1, 3, 15)>>),
     CleanDates(<<Date(2019, 12, 31), Date(2020, 1, 1)>>)}

\* an expense account, a revenue and an expense account, and an asset account
PersistedAccounts ==
    {CleanAccounts(<<Account(1, "Expense")>>),
     CleanAccounts(<<Account(1, "Revenue"), Account(2, "Expense")>>),
     CleanAccounts(<<Account(1, "Asset")>>)}

FactSchema(ac, st, co, em, da) ==
    [FreshSchema EXCEPT
        !["dim_student"].rows = st, !["dim_course"].rows = co,
        !["dim_employee"].rows = em, !["dim_date"].rows = da,
        !["dim_department"].rows = CleanDepartments(<<Department(1, NaN)>>, em),
        !["dim_account"].rows = ac,
        !["dim_vendor"].rows = <<Vendor(1)>>]

\* two students, of 20 and of 30 years
TwoStudents ==
    <<[student_id |-> 1, birth_days |-> NaN, admission_year |-> Fixed(2021), age |-> 20],
      [student_id |-> 2, birth_days |-> NaN, admission_year |-> Fixed(2021), age |-> 30]>>

\* every combination of the persisted tables, and a schema with two students
FactSchemas ==
    {FactSchema(ac, st, co, em, da) :
        ac \in PersistedAccounts, st \in PersistedStudents, co \in PersistedCourses,
        em \in PersistedEmployees, da \in PersistedDates}
    \cup {FactSchema(CleanAccounts(<<Account(1, "Expense")>>), TwoStudents,
                     <<[course_id |-> 1, course_code |-> CS101, credit_hours |-> 3,
                        course_level |-> extract_course_level(CS101)]>>,
                     <<CleanedEmployee(1, 1)>>,
                     CleanDates(<<Date(current_year - 1, 3, 15)>>))}

InitFacts ==
    /\ InitRun("generate_business_facts", "gen_read")
    /\ files = SmallFiles
    /\ transformed_data = NoData
    /\ db \in FactSchemas

NextFacts ==
    \/ GenerateRead
    \/ GenerateAcademic
    \/ GenerateHr
    \/ GenerateFinance

SpecFacts == InitFacts /\ [][NextFacts]_vars

----------------------------------------------------------------------------
(* The HR loop of generate_business_facts on calendars long enough for its two     *)
(* sample sizes, 8 and 4, to cut the sample short.  The run stands where the       *)
(* academic rows have been written.                                                *)

\* nine quarterly dates on or after the cutoff, none after today
NineQuarterlyDates ==
    <<Date(current_year - 2, 6, 30), Date(current_year - 2, 9, 30),
      Date(current_year - 2, 12, 31), Date(current_year - 1, 3, 31),
      Date(current_year - 1, 6, 30), Date(current_year - 1, 9, 30),
      Date(current_year - 1, 12, 31), Date(current_year, 3, 31),
      Date(current_year, 6, 1)>>

\* five dates before the cutoff
FiveOldDates ==
    <<Date(2019, 1, 31), Date(2019, 3, 31), Date(2019, 6, 30), Date(2019, 9, 30),
      Date(2019, 12, 31)>>

\* the calendars of the HR loop: more than 8 recent quarterly dates; more than 4
\* dates, none of them recent; a recent quarterly date beside an old one; a recent
\* quarterly date beside a quarterly date of next year; the date of the cutoff
\* beside the quarterly date of the day before
HrCalendars ==
    {NineQuarterlyDates, FiveOldDates,
     <<Date(2019, 1, 31), Date(current_year - 1, 3, 15)>>,
     <<Date(current_year, 3, 15), Date(current_year + 1, 3, 15)>>,
     <<Date(current_year - 2, 6, 14), Date(current_year - 2, 6, 15)>>}

\* the frames read back from a schema with the employees em and the calendar da
HrFramesOf(em, da) ==
    [students |-> <<[student_id |-> 1, birth_days |-> NaN,
                     admission_year |-> Fixed(2021), age |-> 20]>>,
     courses |-> <<[course_id |-> 1, course_code |-> CS101, credit_hours |-> 3,
                    course_level |-> extract_course_level(CS101)]>>,
     employees |-> em,
     departments |-> CleanDepartments(<<Department(1, NaN)>>, em),
     accounts |-> CleanAccounts(<<Account(1, "Expense")>>),
     vendors |-> <<Vendor(1)>>,
     dates |-> CleanDates(da)]

\* one employee on every calendar, two on the short ones
HrFrames ==
    {HrFramesOf(<<CleanedEmployee(1, 1)>>, da) : da \in HrCalendars}
    \cup {HrFramesOf(<<CleanedEmployee(1, 1), CleanedEmployee(2, 1)>>, da) :
             da \in {c \in HrCalendars : Len(c) <= 2}}

\* the schema holding the frames, with the academic rows of the run when the
\* academic loop did not raise
HrSchema(frames) ==
    [FreshSchema EXCEPT
        !["dim_student"].rows = frames.students, !["dim_course"].rows = frames.courses,
        !["dim_employee"].rows = frames.employees, !["dim_date"].rows = frames.dates,
        !["dim_department"].rows = frames.departments,
        !["dim_account"].rows = frames.accounts, !["dim_vendor"].rows = frames.vendors,
        !["fact_academics"].rows =
            IF AcademicRaises(frames) THEN <<>>
            ELSE CHOOSE academic_data \in AcademicData(frames) : TRUE]

InitHr ==
    /\ other = NoRun
    /\ entry = "generate_business_facts"
    /\ pc = "gen_hr"
    /\ ip = 1
    /\ fk_checks = 1
    /\ files = SmallFiles
    /\ transformed_data = NoData
    /\ df \in {f \in HrFrames : ~AcademicRaises(f)}
    /\ db = HrSchema(df)
    /\ out = <<"Generating fact tables with business logic...">>
    /\ sql = <<Select("dim_student"), Select("dim_course"), Select("dim_employee"),
               Select("dim_department"), Select("dim_account"), Select("dim_vendor"),
               Select("dim_date"), Insert("fact_academics")>>
    /\ raised = FALSE
    /\ exc = ""
    /\ first = [taken |-> FALSE, db |-> NoSchema, fk_checks |-> 1]

NextHr == GenerateHr

SpecHr == InitHr /\ [][NextHr]_vars

----------------------------------------------------------------------------
(* gd.py: the generator of the raw files. A file that does not exist is the      *)
(* empty table: the generator never writes a file without rows.                   *)

\* days of the generated range before today: timedelta(days=365*3)
GeneratedDays == 1095

IsLeap(y) == (y % 4 = 0 /\ y % 100 # 0) \/ y % 400 = 0

DaysInMonth(y, m) ==
    IF m = 2 THEN (IF IsLeap(y) THEN 29 ELSE 28)
    ELSE IF m \in {4, 6, 9, 11} THEN 30
    ELSE 31

\* d + datetime.timedelta(days=1)
NextDay(d) ==
    IF d.d < DaysInMonth(d.y, d.m) THEN [d EXCEPT !.d = @ + 1]
    ELSE IF d.m < 12 THEN [y |-> d.y, m |-> d.m + 1, d |-> 1]
    ELSE [y |-> d.y + 1, m |-> 1, d |-> 1]

PrevDay(d) ==
    IF d.d > 1 THEN [d EXCEPT !.d = @ - 1]
    ELSE IF d.m > 1 THEN [y |-> d.y, m |-> d.m - 1, d |-> DaysInMonth(d.y, d.m - 1)]
    ELSE [y |-> d.y - 1, m |-> 12, d |-> 31]

\* d - datetime.timedelta(days=n), a month at a time: d.d days before d is the last
\* day of the month before
RECURSIVE DaysBefore(_, _)
DaysBefore(d, n) ==
    IF n < d.d THEN [d EXCEPT !.d = @ - n]
    ELSE DaysBefore(PrevDay([d EXCEPT !.d = 1]), n - d.d)

\* a <= b on dates
NotAfter(a, b) ==
    \/ a.y < b.y
    \/ a.y = b.y /\ a.m < b.m
    \/ a.y = b.y /\ a.m = b.m /\ a.d <= b.d

DigitChars == <<"0", "1", "2", "3", "4", "5", "6", "7", "8", "9">>

\* the decimal digits of n, without padding
RECURSIVE Decimal(_)
Decimal(n) ==
    IF n < 10 THEN <<DigitChars[n + 1]>> ELSE Decimal(n \div 10) \o <<DigitChars[(n % 10) + 1]>>

\* n in at least width digits, padded with zeros on the left
RECURSIVE ZeroPadded(_, _)
ZeroPadded(n, width) ==
    LET digits == Decimal(n)
    IN  IF Len(digits) >= width THEN digits
        ELSE <<"0">> \o ZeroPadded(n, width - 1)

\* the text with month and day not padded, as "%Y%-m%-d" gives it
StrftimeUnpadded(d) == Decimal(d.y) \o Decimal(d.m) \o Decimal(d.d)

\* d.strftime("%Y%m%d")
Strftime(d) == ZeroPadded(d.y, 4) \o ZeroPadded(d.m, 2) \o ZeroPadded(d.d, 2)

\* int() of a text of decimal digits
IntOfText(text) == DigitRun(text, 1, 0)

\* f"{sem} {d.year}" as <<season, year>>
GeneratorSemester(d) ==
    <<IF d.m \in {1, 2, 3, 4} THEN "Spring"
      ELSE IF d.m \in {5, 6, 7, 8} THEN "Summer"
      ELSE "Fall",
      d.y>>

\* a row of the date dimension
GeneratedDate(d) ==
    [date_key |-> IntOfText(Strftime(d)), date |-> d, semester |-> GeneratorSemester(d)]

\* the row of a date file whose date cell cannot be parsed: the text 2024-02-30
UnparsableDate == [date_key |-> 20240230, date |-> NaT, semester |-> <<"Spring", 2024>>]

\* the generator's rows of the 15th of every month of last year, of the last day
\* of that year and of the first of this one, and a row with an unparsable date
RawDates(i) ==
    IF i = 1
    THEN {GeneratedDate([y |-> current_year - 1, m |-> m, d |-> 15]) : m \in 1 .. 12}
         \cup {UnparsableDate}
    ELSE {GeneratedDate([y |-> current_year - 1, m |-> 12, d |-> 31]),
          GeneratedDate([y |-> current_year, m |-> 1, d |-> 1]), UnparsableDate}

DateFiles == {[SmallFiles EXCEPT !.dates = da] : da \in KeyedTablesOf(RawDates)}

\* transform_dimensions called on its own, on any of the raw files
InitTransform ==
    /\ InitRun("transform_dimensions", "transform")
    /\ files \in StudentFiles \cup EmployeeFiles \cup CourseFiles \cup DepartmentFiles
                \cup DateFiles
    /\ transformed_data = NoData
    /\ db = NoSchema

NextTransform == TransformDimensions

SpecTransform == InitTransform /\ [][NextTransform]_vars

\* the first and the last date of the loop
GeneratorStart == DaysBefore(Today, GeneratedDays)

GeneratorEnd == Today

\* the check written with any() in place of all()
any_file_exists(f) == \E k \in DOMAIN f : f[k] # <<>>

\* all(os.path.exists(file) for file in data_files)
all_files_exist(f) == \A k \in DOMAIN f : f[k] # <<>>

\* the rows of the six other dimensions the generator can build: ids 1 .. n, the
\* department of an employee drawn from the department ids
GeneratedDimensions ==
    {[students |-> [i \in 1 .. MaxRows |-> Student(i, 7305, Fixed(2021))],
      employees |-> [i \in 1 .. MaxRows |-> Employee(i, dept[i], "Professor", 80000, 3000)],
      courses |-> [i \in 1 .. MaxRows |-> Course(i, CS101, 3)],
      departments |-> [i \in 1 .. MaxDeptId |-> Department(i, NaN)],
      accounts |-> [i \in 1 .. MaxRows |-> Account(i, "Expense")],
      vendors |-> [i \in 1 .. MaxRows |-> Vendor(i)],
      dates |-> <<>>] : dept \in [1 .. MaxRows -> {1, MaxDeptId}]}

\* gd.py: the check of the files; exit() when every file exists
CheckFiles ==
    /\ pc = "gd_check"
    /\ IF all_files_exist(files)
          THEN /\ out' = Append(out, "Data already generated. CSV files exist:")
               /\ pc' = "done"
          ELSE /\ pc' = "gd_rows"
               /\ UNCHANGED out
    /\ UNCHANGED <<other, entry, ip, files, transformed_data, db, fk_checks, df, sql, raised,
                   exc, first>>

\* gd.py: the loops of the departments, employees, students, courses, accounts and
\* vendors
GenerateDimensions ==
    /\ pc = "gd_rows"
    /\ df' \in GeneratedDimensions
    /\ pc' = "gd_dates"
    /\ UNCHANGED <<other, entry, ip, files, transformed_data, db, fk_checks, out, sql, raised,
                   exc, first>>

\* the date d the loop of the dates stands at
GeneratorDay ==
    IF df.dates = <<>> THEN GeneratorStart ELSE NextDay(df.dates[Len(df.dates)].date)

\* gd.py: one pass of while d <= end, or the end of the loop
GenerateDate ==
    /\ pc = "gd_dates"
    /\ IF NotAfter(GeneratorDay, GeneratorEnd)
          THEN /\ df' = [df EXCEPT !.dates = Append(@, GeneratedDate(GeneratorDay))]
               /\ UNCHANGED pc
          ELSE /\ pc' = "gd_save"
               /\ UNCHANGED df
    /\ UNCHANGED <<other, entry, ip, files, transformed_data, db, fk_checks, out, sql, raised,
                   exc, first>>

\* gd.py: the seven to_csv and the closing message
SaveFiles ==
    /\ pc = "gd_save"
    /\ files' = df
    /\ out' = Append(out, "Generated dummy data for all dimension tables")
    /\ pc' = "done"
    /\ UNCHANGED <<other, entry, ip, transformed_data, db, fk_checks, df, sql, raised, exc, first>>

\* the generator started in a directory without files, with one file missing, or
\* with the files of an earlier run
InitGenerator ==
    /\ InitRun("gd", "gd_check")
    /\ files \in {NoData, [OldFiles EXCEPT !.dates = <<>>], OldFiles}
    /\ transformed_data = NoData
    /\ db = NoSchema

\* gd.py is started a second time, after the first run has ended
RunGeneratorAgain ==
    /\ entry = "gd"
    /\ pc = "done"
    /\ ~first.taken
    /\ first' = [first EXCEPT !.taken = TRUE]
    /\ pc' = "gd_check"
    /\ df' = NoData
    /\ UNCHANGED <<other, entry, ip, files, transformed_data, db, fk_checks, out, sql, raised,
                   exc>>

NextGenerator ==
    \/ CheckFiles
    \/ GenerateDimensions
    \/ GenerateDate
    \/ SaveFiles
    \/ RunGeneratorAgain

SpecGenerator == InitGenerator /\ [][NextGenerator]_vars

----------------------------------------------------------------------------
(* Two runs of main against the same schema.  Each run is a process of its own    *)
(* with its own connection: its position, its frames, its output, its statements  *)
(* and its session setting are its own; the files and the schema are shared.  The  *)
(* variables hold the run that takes the next step, and other the run that waits.  *)

\* the scheduler lets the other process run
Switch ==
    /\ other.id # 0
    /\ other.pc # "done"
    /\ other' = [id |-> 3 - other.id, pc |-> pc, ip |-> ip,
                 transformed_data |-> transformed_data, fk_checks |-> fk_checks,
                 df |-> df, out |-> out, sql |-> sql, raised |-> raised, exc |-> exc]
    /\ pc' = other.pc
    /\ ip' = other.ip
    /\ transformed_data' = other.transformed_data
    /\ fk_checks' = other.fk_checks
    /\ df' = other.df
    /\ out' = other.out
    /\ sql' = other.sql
    /\ raised' = other.raised
    /\ exc' = other.exc
    /\ UNCHANGED <<entry, files, db, first>>

\* an employee with a salary below the band: the runs can clean it differently
SharedFiles ==
    [SmallFiles EXCEPT !.employees = <<Employee(1, 1, "Professor", 20000, 3000)>>]

InitConcurrent ==
    /\ entry = "main"
    /\ pc = "transform"
    /\ ip = 1
    /\ fk_checks = 1
    /\ df = NoData
    /\ out = <<>>
    /\ sql = <<>>
    /\ raised = FALSE
    /\ exc = ""
    /\ first = [taken |-> FALSE, db |-> NoSchema, fk_checks |-> 1]
    /\ other = [NoRun EXCEPT !.id = 2, !.pc = "transform"]
    /\ files = SharedFiles
    /\ transformed_data = NoData
    /\ db = NoSchema

NextConcurrent ==
    \/ TransformDimensions
    \/ ExecuteStatement
    \/ LoadDimension
    \/ RepairEmployeeDepartments
    \/ LoadEmployees
    \/ GenerateRead
    \/ GenerateAcademic
    \/ GenerateHr
    \/ GenerateFinance
    \/ Complete
    \/ Except
    \/ Switch

SpecConcurrent == InitConcurrent /\ [][NextConcurrent]_vars

----------------------------------------------------------------------------
(* Properties *)

Warning == "Warning: Found invalid department IDs in employees"

Failed == "ETL process failed"

Success == "REAL ETL process completed successfully!"

TablesCreated == "All tables created successfully!"

DataLoaded == "All transformed data loaded successfully!"

Printed(line) == line \in Range(out)

Rows(name) == db[name].rows

IsPrefix(a, b) == Len(a) <= Len(b) /\ \A i \in DOMAIN a : a[i] = b[i]

\* the first lines of the four stages, in the order of the claim
StageLines ==
    <<"Performing ETL transformations on dimension data...",
      "Creating transformed tables...",
      "Loading transformed data into database...",
      "Generating fact tables with business logic...">>

\* the stages the run has started, in the order it started them
StagesStarted == SelectSeq(out, LAMBDA line : line \in Range(StageLines))

\* the stage the position at belongs to, as an index of StageLines
StageOf(at) ==
    IF at = "transform" THEN 1
    ELSE IF at = "create" THEN 2
    ELSE IF at \in {"load", "load_check", "load_employees"} THEN 3
    ELSE 4

\* a department row carries the reference of employee row e
Resolves(e, departments) ==
    /\ e.department_id # NaN
    /\ \E d \in Range(departments) : d.department_id = e.department_id

LoaderCompleted == entry = "load_transformed_data" /\ pc = "done" /\ ~raised

\* C1: after load_transformed_data has completed, the department_id of every row of
\* dim_employee is the department_id of some row of dim_department
C1_NoDanglingEmployee ==
    LoaderCompleted =>
        \A e \in Range(Rows("dim_employee")) : Resolves(e, Rows("dim_department"))

\* the Loader was handed a dangling reference, repaired it and loaded the employees
C1_Witness ==
    /\ LoaderCompleted
    /\ Printed(Warning)
    /\ Rows("dim_employee") # <<>>

\* C2: with departments 1, 2, 3 and an employee row that references department 99
\* in the files of a run of main, once the Loader has run the employees persisted
\* are in departments 1, 2, 3 and the warning has been printed
C2_WarningReported ==
    ( /\ entry = "main"
      /\ valid_dept_ids(files.departments) = {1, 2, 3}
      /\ \E e \in Range(files.employees) : e.department_id = 99
      /\ Printed(DataLoaded) )
    => /\ \A e \in Range(Rows("dim_employee")) : e.department_id \in {1, 2, 3}
       /\ Printed(Warning)

\* the statement at place i of the log writes a fact table
WritesFact(i) == sql[i].op = "INSERT" /\ sql[i].tables[1] \in FactTables

\* every dimension table was written before place i of the log
DimensionsLoadedBefore(i) ==
    \A t \in DimTables : \E j \in 1 .. (i - 1) : sql[j] = Insert(t)

\* C3: a run of main starts its stages in the order transform, create, load,
\* generate, each at most once, and writes no fact row before all seven dimension
\* tables have been written
C3_StageOrder ==
    entry = "main" =>
        /\ IsPrefix(StagesStarted, StageLines)
        /\ \A i \in DOMAIN sql : WritesFact(i) => DimensionsLoadedBefore(i)

\* a run of main went through its four stages and wrote academic facts
C3_Witness ==
    /\ entry = "main"
    /\ pc = "done"
    /\ ~raised
    /\ StagesStarted = StageLines
    /\ Rows("fact_academics") # <<>>

\* C4: when a stage of main raises, no later stage starts, the failure is printed,
\* the error leaves main and the success banner is not printed; the banner is
\* printed only when the four stages have completed
C4_FailureAborts ==
    entry = "main" =>
        /\ exc # "" =>
              /\ pc \in {"except", "done"}
              /\ Len(StagesStarted) = StageOf(exc)
              /\ ~Printed(Success)
        /\ (pc = "done" /\ exc # "") => raised /\ Printed(Failed)
        /\ (pc = "done" /\ exc = "") => ~raised /\ ~Printed(Failed) /\ Printed(Success)
        /\ Printed(Success) =>
              /\ exc = ""
              /\ transformed_data # NoData
              /\ Printed(TablesCreated)
              /\ Printed(DataLoaded)
              /\ \E i \in DOMAIN sql : sql[i] = Insert("fact_finance")

\* the load of a run of main failed after the schema was created
C4_Witness ==
    /\ entry = "main"
    /\ pc = "done"
    /\ exc = "load_employees"
    /\ raised
    /\ Printed(Failed)

\* the SET, DROP and CREATE statements the run has issued, in order
Ddl == SelectSeq(sql, LAMBDA q : q.op \in {"SET", "DROP", "CREATE"})

DropsAt(i, t) == Ddl[i].op = "DROP" /\ t \in Range(Ddl[i].tables)

CreatesAt(i, t) == Ddl[i].op = "CREATE" /\ Ddl[i].tables[1] = t

DroppedBefore(i, t) == \E j \in 1 .. (i - 1) : DropsAt(j, t)

CreatedBefore(i, t) == \E j \in 1 .. (i - 1) : CreatesAt(j, t)

\* C5: create_transformed_tables first disables foreign-key checking, drops the
\* fact tables, then the dimension tables, creates the seven dimension tables
\* (dim_department before dim_employee), then the three fact tables, each after
\* the tables it references, and re-enables checking last, after all ten exist
C5_StatementOrder ==
    /\ Ddl # <<>> => Ddl[1] = Set(0)
    /\ \A i \in DOMAIN Ddl :
          /\ Ddl[i].op = "SET" => i = 1 \/ Ddl[i] = Set(1)
          /\ \A d \in DimTables :
                DropsAt(i, d) => \A f \in FactTables : DropsAt(i, f) \/ DroppedBefore(i, f)
          /\ \A f \in FactTables : DropsAt(i, f) => \A d \in DimTables : ~DropsAt(i, d)
          /\ Ddl[i].op = "CREATE" => \A t \in Tables : DroppedBefore(i, t)
          /\ \A f \in FactTables :
                CreatesAt(i, f) =>
                    /\ \A d \in DimTables : CreatedBefore(i, d)
                    /\ \A fk \in Ddl[i].fks : CreatedBefore(i, fk[2])
          /\ CreatesAt(i, "dim_employee") => CreatedBefore(i, "dim_department")
          /\ Ddl[i] = Set(1) =>
                /\ i = Len(Ddl)
                /\ \A t \in Tables : CreatedBefore(i, t)
    /\ (pc = "create" /\ ip > 1) => fk_checks = 0
    /\ Printed(TablesCreated) =>
          /\ Ddl # <<>>
          /\ Ddl[Len(Ddl)] = Set(1)
          /\ fk_checks = 1
          /\ \A t \in Tables : db[t].exists \/ pc \notin {"load", "load_check"}

\* create_transformed_tables has returned in a run of main
C5_Witness ==
    /\ entry = "main"
    /\ pc = "load"
    /\ ip = 1
    /\ Printed(TablesCreated)
    /\ Len(Ddl) = Len(CreateStatements)

\* the dimension tables the run has written, in order
DimensionWrites ==
    LET writes == SelectSeq(sql, LAMBDA q : q.op = "INSERT" /\ q.tables[1] \in DimTables)
    IN  [i \in DOMAIN writes |-> writes[i].tables[1]]

\* C6: load_transformed_data writes dim_date, then dim_department, then
\* dim_account, dim_vendor and dim_course, then dim_student, then dim_employee; it
\* writes dim_employee after dim_department and after no employee row is left with
\* a department id outside the department id set
C6_LoadOrder ==
    LET w == DimensionWrites
    IN  /\ Len(w) <= 7
        /\ Len(w) >= 1 => w[1] = "dim_date"
        /\ Len(w) >= 2 => w[2] = "dim_department"
        /\ \A i \in DOMAIN w :
              i \in 3 .. 5 => w[i] \in {"dim_account", "dim_vendor", "dim_course"}
        /\ \A i, j \in DOMAIN w : i # j => w[i] # w[j]
        /\ Len(w) >= 6 => w[6] = "dim_student"
        /\ Len(w) >= 7 =>
              /\ w[7] = "dim_employee"
              /\ invalid_dept_ids(transformed_data.employees,
                                  transformed_data.departments) = {}

\* the Loader repaired a reference and then wrote its seventh table
C6_Witness ==
    /\ LoaderCompleted
    /\ Printed(Warning)
    /\ Len(DimensionWrites) = 7

\* the ten tables exist, empty, each with a primary key
TenEmptyTables ==
    \A t \in Tables : db[t].exists /\ db[t].rows = <<>> /\ db[t].pk # ""

\* C7: create_transformed_tables, run on any schema, leaves the ten tables empty,
\* and run a second time leaves what the first run left: the same tables, keys and
\* foreign keys
C7_RebuildIdempotent ==
    (entry = "create_transformed_tables" /\ pc = "done") =>
        /\ ~raised
        /\ TenEmptyTables
        /\ fk_checks = 1
        /\ first.taken => db = first.db /\ fk_checks = first.fk_checks

\* the second run has returned
C7_Witness ==
    /\ entry = "create_transformed_tables"
    /\ pc = "done"
    /\ first.taken
    /\ ~raised

TransformCompleted == entry = "transform_dimensions" /\ pc = "done" /\ ~raised

\* C8: every cleaned student row has age in [16, 60] and admission_year in
\* [2000, current_year]
C8_StudentRanges ==
    TransformCompleted =>
        \A r \in Range(transformed_data.students) :
            /\ 16 <= r.age /\ r.age <= 60
            /\ Fixed(2000) <= r.admission_year /\ r.admission_year <= Fixed(current_year)

\* C9: every cleaned employee row has its salary within the band of its job title,
\* the default band for an unrecognized title
C9_SalaryInBand ==
    TransformCompleted =>
        \A r \in Range(transformed_data.employees) :
            /\ r.salary # NaN
            /\ SalaryBand(r.job_title)[1] <= r.salary
            /\ r.salary <= SalaryBand(r.job_title)[2]

\* C10: every academic fact row has grade in [0, 100] and attendance_percent in
\* [60, 100], and every HR fact row has performance_rating in [1.0, 5.0] (tenths)
C10_FactRanges ==
    entry = "generate_business_facts" =>
        /\ \A r \in Range(Rows("fact_academics")) :
              /\ 0 <= r.grade /\ r.grade <= 1000
              /\ 600 <= r.attendance_percent /\ r.attendance_percent <= 1000
        /\ \A r \in Range(Rows("fact_hr_metrics")) :
              10 <= r.performance_rating /\ r.performance_rating <= 50

\* draws beyond the ends were clipped: a grade of 0 with an attendance of 60, and
\* a rating of 5.0
C10_Witness ==
    /\ entry = "generate_business_facts"
    /\ \E r \in Range(Rows("fact_academics")) : r.grade = 0 /\ r.attendance_percent = 600
    /\ \E r \in Range(Rows("fact_hr_metrics")) : r.performance_rating = 50

\* C11: every finance fact row has transaction_type "Expense" when the account it
\* was drawn for has account_type "Expense" and "Revenue" for an account of any
\* other type; no other transaction_type is produced
C11_TransactionType ==
    entry = "generate_business_facts" =>
        \A r \in Range(Rows("fact_finance")) :
            /\ r.transaction_type \in {"Expense", "Revenue"}
            /\ \A a \in Range(df.accounts) :
                  a.account_id = r.account_id =>
                      (r.transaction_type = "Expense" <=> a.account_type = "Expense")

\* the finance loop drew the expense account once and the revenue account once
C11_Witness ==
    /\ entry = "generate_business_facts"
    /\ pc = "done"
    /\ ~raised
    /\ \E r \in Range(Rows("fact_finance")) :
          r.transaction_type = "Expense" /\ r.account_id = 2
    /\ \E r \in Range(Rows("fact_finance")) :
          r.transaction_type = "Revenue" /\ r.account_id = 1

\* C12: a step of load_transformed_data only appends: every table that exists
\* keeps its rows, unchanged and in place, ahead of the rows the step adds, and no
\* fact table changes
C12_AppendOnly ==
    [][entry = "load_transformed_data" =>
          \A t \in Tables :
              /\ db[t].exists => db'[t].exists /\ IsPrefix(db[t].rows, db'[t].rows)
              /\ t \in FactTables => db'[t] = db[t]]_vars

\* the Loader completed on the tables of a previous run, whose rows come first
C12_Witness ==
    /\ LoaderCompleted
    /\ Len(Rows("dim_department")) >= 2
    /\ Rows("dim_department")[1] = PreviousRun["dim_department"].rows[1]
    /\ Len(Rows("dim_employee")) >= 2
    /\ Rows("dim_employee")[1] = PreviousRun["dim_employee"].rows[1]
    /\ \A t \in FactTables : db[t] = PreviousRun[t]

\* the first raw student row of its student_id
FirstOfStudent(i) ==
    \A j \in 1 .. (i - 1) : files.students[j].student_id # files.students[i].student_id

\* C13 as claimed: a student whose computed age is below 16 or above 60 remains in
\* the cleaned student table, with age 16 or 60 respectively
C13_AgeClipped ==
    TransformCompleted =>
        \A i \in DOMAIN files.students :
            LET r == files.students[i]
            IN  FirstOfStudent(i) =>
                   /\ AgeOf(r.birth_days) < 16 =>
                         \E c \in Range(transformed_data.students) :
                             c.student_id = r.student_id /\ c.age = 16
                   /\ AgeOf(r.birth_days) > 60 =>
                         \E c \in Range(transformed_data.students) :
                             c.student_id = r.student_id /\ c.age = 60

\* C13 as amended: the Transformer removes the student rows whose computed age is
\* below 16 or above 60 (an unparsable birth date computes to 0) and keeps the
\* computed age of the others unchanged; a student_id stays exactly when one of
\* its raw rows has a computed age in [16, 60]
C13_AgeFiltered ==
    TransformCompleted =>
        /\ \A c \in Range(transformed_data.students) :
              /\ 16 <= c.age /\ c.age <= 60
              /\ \E r \in Range(files.students) :
                    /\ r.student_id = c.student_id
                    /\ r.birth_days = c.birth_days
                    /\ c.age = AgeOf(r.birth_days)
        /\ \A r \in Range(files.students) :
              IF 16 <= AgeOf(r.birth_days) /\ AgeOf(r.birth_days) <= 60
              THEN \E c \in Range(transformed_data.students) : c.student_id = r.student_id
              ELSE \A c \in Range(transformed_data.students) :
                      ~(c.student_id = r.student_id /\ c.birth_days = r.birth_days)

\* a student of 15 was removed and a student of 60 kept
C13_Witness ==
    /\ TransformCompleted
    /\ \E r \in Range(files.students) :
          /\ AgeOf(r.birth_days) = 15
          /\ \A c \in Range(transformed_data.students) : c.student_id # r.student_id
    /\ \E c \in Range(transformed_data.students) : c.age = 60

\* the level the claim gives each code, read off by hand
ClaimedLevels ==
    (CS101 :> "Introductory") @@ (CS305 :> "Intermediate") @@ (CS450 :> "Advanced") @@
    (XYZ :> "Unknown") @@
    (<<"C", "S", "1", "9", "9">> :> "Introductory") @@
    (<<"C", "S", "2", "0", "0">> :> "Intermediate") @@
    (<<"C", "S", "3", "9", "9">> :> "Intermediate") @@
    (<<"C", "S", "4", "0", "0">> :> "Advanced") @@
    (<<"2", "A", "4", "5", "0">> :> "Introductory") @@
    (<<"C", "S", "0", "0", "7">> :> "Introductory") @@
    (<<"M", "1", "0", "0", "0">> :> "Advanced") @@
    (<<>> :> "Unknown")

\* C14: the course level of a cleaned course row is the level its code alone
\* gives: the first run of digits read as n gives Introductory for n < 200,
\* Intermediate for n < 400, Advanced otherwise, and Unknown for a code without a
\* digit; two rows with the same code have the same level
C14_CourseLevel ==
    TransformCompleted =>
        /\ \A c \in Range(transformed_data.courses) :
              /\ c.course_code \in DOMAIN ClaimedLevels
              /\ c.course_level = ClaimedLevels[c.course_code]
              /\ c.course_level = "Unknown" <=>
                    \A i \in DOMAIN c.course_code :
                        c.course_code[i] \notin {"0", "1", "2", "3", "4", "5", "6", "7", "8", "9"}
        /\ \A c, d \in Range(transformed_data.courses) :
              c.course_code = d.course_code => c.course_level = d.course_level

\* CS450 and XYZ were cleaned in one run: Advanced and Unknown
C14_Witness ==
    /\ TransformCompleted
    /\ \E c \in Range(transformed_data.courses) :
          c.course_code = CS450 /\ c.course_level = "Advanced"
    /\ \E c \in Range(transformed_data.courses) :
          c.course_code = XYZ /\ c.course_level = "Unknown"

\* the date a key reads as: year, month and day by division
Decode(key) == [y |-> key \div 10000, m |-> (key \div 100) % 100, d |-> key % 100]

\* the rows of the date dimension the generator has built or saved
DateRowsOf(rows) ==
    /\ \A i \in DOMAIN rows :
          /\ rows[i].date_key = rows[i].date.y * 10000 + rows[i].date.m * 100 + rows[i].date.d
          /\ Decode(rows[i].date_key) = rows[i].date
    /\ \A i \in 1 .. (Len(rows) - 1) :
          /\ rows[i].date # rows[i + 1].date
          /\ rows[i].date_key < rows[i + 1].date_key

\* C15: the date key of every generated date is year*10000 + month*100 + day,
\* decoding it returns the date, and the keys grow with the dates, so that distinct
\* dates of the range have distinct keys
C15_DateKeyBijection ==
    entry = "gd" => DateRowsOf(df.dates) /\ (pc = "done" => DateRowsOf(files.dates))

\* the whole range was generated and saved, 29 February 2024 with key 20240229
C15_Witness ==
    /\ entry = "gd"
    /\ pc = "done"
    /\ Len(files.dates) = GeneratedDays + 1
    /\ files.dates[1].date = GeneratorStart
    /\ files.dates[Len(files.dates)].date = Today
    /\ \E i \in DOMAIN files.dates :
          /\ files.dates[i].date = [y |-> 2024, m |-> 2, d |-> 29]
          /\ files.dates[i].date_key = 20240229

\* C16: the manager_id of every cleaned department row is 0 or the employee_id of
\* an employee row; a raw manager_id that is the employee_id of an employee row, or
\* 0, is kept, and one that is missing or matches no employee becomes 0
C16_ManagerId ==
    TransformCompleted =>
        /\ Len(transformed_data.departments) = Len(files.departments)
        /\ \A i \in DOMAIN files.departments :
              LET x == files.departments[i].manager_id
                  cleaned == transformed_data.departments[i].manager_id
                  matches == x # NaN /\ \E e \in Range(files.employees) : e.employee_id = x
              IN  /\ cleaned = 0
                     \/ \E e \in Range(transformed_data.employees) : e.employee_id = cleaned
                  /\ cleaned = (IF matches \/ x = 0 THEN x ELSE 0)

\* a valid reference was kept beside a reference to no employee, which became 0
C16_Witness ==
    /\ TransformCompleted
    /\ \E i, j \in DOMAIN files.departments :
          /\ files.departments[i].manager_id = 77
          /\ transformed_data.departments[i].manager_id = 0
          /\ files.departments[j].manager_id = 2
          /\ transformed_data.departments[j].manager_id = 2

\* no two rows of the table share the value of the column key
UniqueBy(rows, key) == \A i, j \in DOMAIN rows : i # j => rows[i][key] # rows[j][key]

\* the computed age of a raw student row is in [16, 60]
RawAgeInRange(r) == 16 <= AgeOf(r.birth_days) /\ AgeOf(r.birth_days) <= 60

\* row i is the first raw row with its value of key among the rows that satisfy eligible
FirstAmong(rows, key, i, eligible(_)) ==
    /\ eligible(rows[i])
    /\ \A j \in 1 .. (i - 1) : eligible(rows[j]) => rows[j][key] # rows[i][key]

\* the cleaned row c comes from the first raw row of its id among the eligible
\* ones; column tells the raw rows of one id apart
FromFirst(c, rows, key, column, eligible(_)) ==
    \E i \in DOMAIN rows :
        /\ rows[i][key] = c[key]
        /\ FirstAmong(rows, key, i, eligible)
        /\ rows[i][column] = c[column]

AnyRow(r) == TRUE

EmployeesAndCoursesFromFirst ==
    /\ UniqueBy(transformed_data.students, "student_id")
    /\ UniqueBy(transformed_data.employees, "employee_id")
    /\ UniqueBy(transformed_data.courses, "course_id")
    /\ \A c \in Range(transformed_data.employees) :
          FromFirst(c, files.employees, "employee_id", "hire_days", AnyRow)
    /\ \A c \in Range(transformed_data.courses) :
          FromFirst(c, files.courses, "course_id", "course_code", AnyRow)

\* C17 as claimed: the cleaned students, employees and courses have no repeated
\* identifier, and the row kept for an identifier is the first raw row with it
C17_FirstRawRowKept ==
    TransformCompleted =>
        /\ EmployeesAndCoursesFromFirst
        /\ \A c \in Range(transformed_data.students) :
              FromFirst(c, files.students, "student_id", "birth_days", AnyRow)

\* C17 as amended: no repeated identifier; the employee and the course kept are the
\* first raw rows with their identifier, and the student kept is the first raw row
\* with its identifier among the rows whose computed age is in [16, 60]
C17_FirstSurvivingRowKept ==
    TransformCompleted =>
        /\ EmployeesAndCoursesFromFirst
        /\ \A c \in Range(transformed_data.students) :
              FromFirst(c, files.students, "student_id", "birth_days", RawAgeInRange)

\* two raw student rows share an id, the first has an age out of range, and the
\* second is the one kept
C17_Witness ==
    /\ TransformCompleted
    /\ Len(files.students) = 2
    /\ files.students[1].student_id = files.students[2].student_id
    /\ ~RawAgeInRange(files.students[1])
    /\ Len(transformed_data.students) = 1
    /\ transformed_data.students[1].birth_days = files.students[2].birth_days

\* every frame generate_business_facts read has a row, and every employee a department
FramesFilled ==
    /\ \A k \in DOMAIN df : df[k] # <<>>
    /\ \A e \in Range(df.employees) : e.department_id # NaN

\* no date of the last two years has month in {3, 6, 9, 12}
NoQuarterlyDate ==
    \A r \in Range(df.dates) : ~(OnOrAfterCutoff(r.date) /\ r.month \in {3, 6, 9, 12})

\* no employee has Professor or Lecturer in the job title
NoInstructor ==
    \A e \in Range(df.employees) :
        e.job_title \notin {"Professor", "Associate Professor", "Assistant Professor",
                            "Lecturer"}

OtherLoaded ==
    /\ other.id # 0
    /\ other.pc \in {"gen_read", "gen_academic", "gen_hr", "gen_finance"}
    /\ DataLoaded \in Range(other.out)

\* C19: nothing guards a run against another: while one run has loaded its
\* dimension rows and has not finished, every statement of the other run's
\* create_transformed_tables can execute, and its DROP statements remove the
\* tables they name, the loaded rows with them
C19_Unguarded ==
    [][(entry = "main" /\ OtherLoaded /\ pc = "create") =>
          /\ ENABLED ExecuteStatement
          /\ (ExecuteStatement /\ CreateStatements[ip].op = "DROP") =>
                \A t \in Range(CreateStatements[ip].tables) : db'[t] = Absent]_vars

\* a run completed its synthesis on employee rows it did not load: the other
\* run's create_transformed_tables and load came between its load and its read
C19_Witness ==
    /\ entry = "main"
    /\ other.id # 0
    /\ pc = "done"
    /\ ~raised
    /\ Printed(Success)
    /\ df.employees # <<>>
    /\ df.employees # transformed_data.employees
    /\ df.employees = other.transformed_data.employees

\* the first raw employee row with the employee_id of the cleaned row r, the row
\* that drop_duplicates keeps
FirstRawEmployee(r) ==
    LET at == CHOOSE i \in DOMAIN files.employees :
                  /\ files.employees[i].employee_id = r.employee_id
                  /\ \A j \in 1 .. (i - 1) :
                        files.employees[j].employee_id # r.employee_id
    IN  files.employees[at]

\* C20: with at least one department, the department_id of every cleaned employee
\* row is an id of the raw department table; a raw reference that is such an id is
\* left unchanged, and one that is not is replaced by one of these ids
C20_DepartmentReference ==
    (TransformCompleted /\ files.departments # <<>>) =>
        \A r \in Range(transformed_data.employees) :
            LET valid == valid_dept_ids(files.departments)
                x == FirstRawEmployee(r).department_id
            IN  /\ r.department_id \in valid
                /\ x \in valid => r.department_id = x

\* a valid reference was kept beside a reference to no department, which was
\* replaced by an id of the department table
C20_Witness ==
    /\ TransformCompleted
    /\ files.departments # <<>>
    /\ \E r, q \in Range(transformed_data.employees) :
          /\ FirstRawEmployee(r).department_id \in valid_dept_ids(files.departments)
          /\ r.department_id = FirstRawEmployee(r).department_id
          /\ FirstRawEmployee(q).department_id = 99
          /\ q.department_id \in valid_dept_ids(files.departments)

\* the HR loop has run to its end
HrCompleted ==
    /\ entry = "generate_business_facts"
    /\ pc \in {"gen_finance", "done"}
    /\ exc \notin {"gen_read", "gen_academic", "gen_hr"}

\* the positions of the HR rows of employee e
HrRowsOf(e) ==
    {i \in DOMAIN Rows("fact_hr_metrics") : Rows("fact_hr_metrics")[i].employee_id = e}

\* a date of the last two years: on or after the cutoff and not after today
WithinLastTwoYears(date) == OnOrAfterCutoff(date) /\ NotAfter(date, Today)

\* the HR rows of every employee are as many as, and dated as, the quarterly dates
\* among those that recent accepts allow: min(8, number of them) rows on such
\* dates, or with none of them min(4, number of dates) rows on any dates
HrSnapshots(recent(_)) ==
    HrCompleted =>
        \A e \in {r.employee_id : r \in Range(df.employees)} :
            LET rows == Rows("fact_hr_metrics")
                quarterly == {d \in Range(df.dates) :
                                 recent(d.date) /\ d.month \in {3, 6, 9, 12}}
                from == IF quarterly # {} THEN quarterly ELSE Range(df.dates)
            IN  /\ Cardinality(HrRowsOf(e)) <= 8
                /\ \A i, j \in HrRowsOf(e) : i # j => rows[i].date_key # rows[j].date_key
                /\ Cardinality(HrRowsOf(e)) =
                      (IF quarterly # {} THEN Min(8, Cardinality(quarterly))
                       ELSE Min(4, Len(df.dates)))
                /\ \A i \in HrRowsOf(e) : \E d \in from : d.date_key = rows[i].date_key

\* C21: every persisted employee gets at most 8 HR rows, of pairwise distinct
\* date_keys; with a quarterly date within the last two years, min(8, number of
\* such dates) rows, each on such a date; with none, min(4, number of dates) rows
\* on any dates
C21_HrSnapshots == HrSnapshots(WithinLastTwoYears)

\* C21, amended: every persisted employee gets at most 8 HR rows, of pairwise
\* distinct date_keys; with a quarterly date on or after the cutoff (two years
\* before today), be it after today, min(8, number of such dates) rows, each on
\* such a date; with none, min(4, number of dates) rows on any dates
C21_HrSnapshotsFromCutoff == HrSnapshots(OnOrAfterCutoff)

\* an employee got two HR rows, one of them on a quarterly date after today
C21_Witness ==
    /\ HrCompleted
    /\ Cardinality(HrRowsOf(1)) = 2
    /\ \E i \in HrRowsOf(1) : \E d \in Range(df.dates) :
          /\ d.date_key = Rows("fact_hr_metrics")[i].date_key
          /\ d.month \in {3, 6, 9, 12}
          /\ ~NotAfter(d.date, Today)

\* both sample sizes cut a sample short: 8 rows from nine quarterly dates
HrEightOfNine ==
    /\ HrCompleted
    /\ Len(df.dates) = 9
    /\ Len(Rows("fact_hr_metrics")) = 8

\* 4 rows from five dates, none of them recent
HrFourOfFive ==
    /\ HrCompleted
    /\ Len(df.dates) = 5
    /\ Len(Rows("fact_hr_metrics")) = 4

\* generate_business_facts has returned
FactsCompleted == entry = "generate_business_facts" /\ pc = "done" /\ ~raised

\* the calendar dates of year 2020 or later
DatesFrom2020 == {d \in Range(df.dates) : d.year # NaN /\ d.year >= 2020}

\* C22: a run appends exactly FinanceIterations (in the code, 2000) finance rows;
\* when the calendar has a date of year 2020 or later every finance row's
\* date_key is that of such a date, and only with none is it that of an earlier
\* date
C22_FinanceRows ==
    FactsCompleted =>
        /\ Len(Rows("fact_finance")) = FinanceIterations
        /\ \A r \in Range(Rows("fact_finance")) :
              \E d \in (IF DatesFrom2020 # {} THEN DatesFrom2020 ELSE Range(df.dates)) :
                  d.date_key = r.date_key

\* the calendar holds 2019-12-31 and 2020-01-01 and every finance row is of
\* 2020-01-01
C22_Witness ==
    /\ FactsCompleted
    /\ \E d \in Range(df.dates) : d.date_key = 20191231
    /\ Rows("fact_finance") # <<>>
    /\ \A r \in Range(Rows("fact_finance")) : r.date_key = 20200101

\* C23: when a persisted employee has Professor or Lecturer in the job title, the
\* employee_id of every academic row is that of such an employee; the id of an
\* employee with another title appears only when there is no such employee
C23_InstructorPreferred ==
    FactsCompleted =>
        \A r \in Range(Rows("fact_academics")) :
            /\ \E e \in Range(df.employees) : e.employee_id = r.employee_id
            /\ \A e \in Range(df.employees) :
                  (e.employee_id = r.employee_id /\ ~IsInstructor(e)) =>
                      \A o \in Range(df.employees) : ~IsInstructor(o)

\* beside an IT Support employee the lecturer was taken as instructor
C23_Witness ==
    /\ FactsCompleted
    /\ \E e \in Range(df.employees) : e.employee_id = 1 /\ e.job_title = "IT Support"
    /\ \E e \in Range(df.employees) : e.employee_id = 2 /\ e.job_title = "Lecturer"
    /\ \E r \in Range(Rows("fact_academics")) : r.employee_id = 2

\* the academic loop has run to its end
AcademicCompleted ==
    /\ entry = "generate_business_facts"
    /\ pc \in {"gen_hr", "gen_finance", "done"}
    /\ exc \notin {"gen_read", "gen_academic"}

\* C24: a run writes at most one academic row per student: no two academic rows
\* share a student_id, and there are at most as many as persisted students
C24_OneRowPerStudent ==
    AcademicCompleted =>
        LET rows == Rows("fact_academics")
        IN  /\ \A i, j \in DOMAIN rows : i # j => rows[i].student_id # rows[j].student_id
            /\ Len(rows) <= Len(df.students)
            /\ \A r \in Range(rows) : \E st \in Range(df.students) : st.student_id = r.student_id

\* of two students both were drawn, the second one first, in a sample of more
\* draws than students
C24_Witness ==
    /\ FactsCompleted
    /\ Len(df.students) = 2
    /\ SampleSize > Len(df.students)
    /\ Len(Rows("fact_academics")) = 2
    /\ Rows("fact_academics")[1].student_id = 2

\* the first raw course row with the course_id of the cleaned row c, the row that
\* drop_duplicates keeps
FirstRawCourse(c) ==
    LET at == CHOOSE i \in DOMAIN files.courses :
                  /\ files.courses[i].course_id = c.course_id
                  /\ \A j \in 1 .. (i - 1) : files.courses[j].course_id # c.course_id
    IN  files.courses[at]

\* C25: the credit_hours of every cleaned course row is 2, 3 or 4; a raw value
\* among these is left unchanged, and any other, a missing one included, is
\* replaced by one of them
C25_CreditHours ==
    TransformCompleted =>
        \A c \in Range(transformed_data.courses) :
            /\ c.credit_hours \in {2, 3, 4}
            /\ FirstRawCourse(c).credit_hours \in {2, 3, 4} =>
                  c.credit_hours = FirstRawCourse(c).credit_hours

\* a raw 5 became 4 beside a raw 2 that was kept
C25_Witness ==
    /\ TransformCompleted
    /\ \E c, d \in Range(transformed_data.courses) :
          /\ FirstRawCourse(c).credit_hours = 5
          /\ c.credit_hours = 4
          /\ FirstRawCourse(d).credit_hours = 2
          /\ d.credit_hours = 2

\* the season the claim gives a month
ClaimedSeason ==
    [m \in 1 .. 12 |-> IF m <= 4 THEN "Spring" ELSE IF m <= 8 THEN "Summer" ELSE "Fall"]

\* C26: the semester of a cleaned date row is Spring, Summer or Fall of the date's
\* year for months 1-4, 5-8 and 9-12, and it is the label the generator wrote in
\* the raw row of the same date; a row whose date cannot be parsed has no label
C26_SemesterLabel ==
    TransformCompleted =>
        /\ Len(transformed_data.dates) = Len(files.dates)
        /\ \A i \in DOMAIN files.dates :
              LET raw == files.dates[i]
                  cleaned == transformed_data.dates[i]
              IN  IF raw.date = NaT THEN cleaned.semester = <<>>
                  ELSE /\ cleaned.semester = <<ClaimedSeason[raw.date.m], raw.date.y>>
                       /\ "semester" \in DOMAIN raw => cleaned.semester = raw.semester

\* a generated row of April was cleaned beside a row with an unparsable date
C26_Witness ==
    /\ TransformCompleted
    /\ \E i, j \in DOMAIN files.dates :
          /\ files.dates[i] = GeneratedDate([y |-> current_year - 1, m |-> 4, d |-> 15])
          /\ transformed_data.dates[i].semester = <<"Spring", current_year - 1>>
          /\ files.dates[j].date = NaT
          /\ transformed_data.dates[j].semester = <<>>

\* main has its transformed_data: transform_dimensions has returned
Transformed == entry = "main" /\ pc # "transform" /\ exc # "transform"

\* C27: in a run of main the employees transform_dimensions returns reference only
\* ids of the department table it returns, so the check of load_transformed_data
\* finds no invalid id: no warning is printed and the employees are loaded as
\* they were returned
C27_RepairNeverTaken ==
    entry = "main" =>
        /\ ~Printed(Warning)
        /\ Transformed =>
              /\ invalid_dept_ids(transformed_data.employees, transformed_data.departments) = {}
              /\ transformed_data \in TransformOutcomes(files)
        /\ Printed(DataLoaded) => Rows("dim_employee") = transformed_data.employees

\* a run on an employee file with a reference to no department came to its end:
\* the Transformer had replaced the reference and the Loader found nothing
C27_Witness ==
    /\ entry = "main"
    /\ pc = "done"
    /\ Printed(Success)
    /\ ~Printed(Warning)
    /\ \E e \in Range(files.employees) : e.department_id = 99
    /\ Rows("dim_employee") # <<>>
    /\ \A e \in Range(Rows("dim_employee")) :
          e.department_id \in valid_dept_ids(files.departments)

\* the values of a key column in a persisted dimension table
KeysPersisted(table, column) == {r[column] : r \in Range(Rows(table))}

\* C28: every fact row written by generate_business_facts carries only keys of
\* the persisted dimension rows: date_key, student_id, course_id and employee_id
\* in an academic row; employee_id, department_id and date_key in an HR row;
\* date_key, account_id, department_id and vendor_id in a finance row
C28_FactKeysPersisted ==
    entry = "generate_business_facts" =>
        /\ \A r \in Range(Rows("fact_academics")) :
              /\ r.date_key \in KeysPersisted("dim_date", "date_key")
              /\ r.student_id \in KeysPersisted("dim_student", "student_id")
              /\ r.course_id \in KeysPersisted("dim_course", "course_id")
              /\ r.employee_id \in KeysPersisted("dim_employee", "employee_id")
        /\ \A r \in Range(Rows("fact_hr_metrics")) :
              /\ r.employee_id \in KeysPersisted("dim_employee", "employee_id")
              /\ r.department_id \in KeysPersisted("dim_department", "department_id")
              /\ r.date_key \in KeysPersisted("dim_date", "date_key")
        /\ \A r \in Range(Rows("fact_finance")) :
              /\ r.date_key \in KeysPersisted("dim_date", "date_key")
              /\ r.account_id \in KeysPersisted("dim_account", "account_id")
              /\ r.department_id \in KeysPersisted("dim_department", "department_id")
              /\ r.vendor_id \in KeysPersisted("dim_vendor", "vendor_id")

\* the three fact tables were written from a schema with two employees
C28_Witness ==
    /\ FactsCompleted
    /\ Rows("fact_academics") # <<>>
    /\ Len(Rows("fact_hr_metrics")) >= 2
    /\ Rows("fact_finance") # <<>>
    /\ \E r \in Range(Rows("fact_hr_metrics")) : r.employee_id = 2

\* the load of a run of main failed at a write
LoadFailed == entry = "main" /\ exc \in {"load", "load_employees"}

\* the writes of the load made before the failing one
WrittenBeforeFailure ==
    IF exc = "load" THEN SubSeq(LoadOrder, 1, ip - 1) ELSE LoadOrder

\* C29: when a write of load_transformed_data fails in a run of main, every table
\* written earlier in the call keeps the rows appended to it, the failing table
\* and the tables after it hold none, and no fact row is written in the run
C29_NoEnclosingTransaction ==
    LoadFailed =>
        /\ \A i \in DOMAIN WrittenBeforeFailure :
              Rows(WrittenBeforeFailure[i].table) =
                  transformed_data[WrittenBeforeFailure[i].key]
        /\ \A i \in DOMAIN LoadOrder :
              i > Len(WrittenBeforeFailure) => Rows(LoadOrder[i].table) = <<>>
        /\ Rows("dim_employee") = <<>>
        /\ \A t \in FactTables : Rows(t) = <<>>
        /\ \A i \in DOMAIN sql : ~WritesFact(i)
        /\ pc \in {"except", "done"}
        /\ ~Printed(Success)

\* the write of dim_employee failed: the run has ended, the six tables written
\* before hold their rows and no fact table has a row
C29_Witness ==
    /\ entry = "main"
    /\ exc = "load_employees"
    /\ pc = "done"
    /\ raised
    /\ Rows("dim_date") # <<>>
    /\ Rows("dim_department") # <<>>
    /\ Rows("dim_student") # <<>>
    /\ Rows("dim_employee") = <<>>
    /\ \A t \in FactTables : Rows(t) = <<>>

\* each of the seven files exists
SevenFilesExist == \A k \in DOMAIN files : files[k] # <<>>

\* C30: a step of the generator changes no file while all seven exist, and the
\* check then ends the run before any row is generated; with a file missing the
\* check goes on to the generation, and the files change only in the save, which
\* writes every one of the seven with the rows just generated
C30_GeneratorWritesOnce ==
    [][entry = "gd" =>
          /\ SevenFilesExist =>
                /\ files' = files
                /\ pc = "gd_check" => pc' = "done" /\ df' = df
          /\ (pc = "gd_check" /\ ~SevenFilesExist) => pc' = "gd_rows"
          /\ files' # files =>
                /\ pc = "gd_save"
                /\ \A k \in DOMAIN files : files'[k] = df[k] /\ files'[k] # <<>>
                /\ Len(files'.dates) = GeneratedDays + 1]_vars

\* the first run found a file missing and wrote the seven files, those of the
\* earlier run included; the second run ended at its check
C30_Witness ==
    /\ entry = "gd"
    /\ first.taken
    /\ pc = "done"
    /\ Printed("Generated dummy data for all dimension tables")
    /\ Printed("Data already generated. CSV files exist:")
    /\ SevenFilesExist
    /\ files.students # OldFiles.students
    /\ Len(files.dates) = GeneratedDays + 1

====
